---- MODULE Spec2Model ----
(***************************************************************************)
(* Admission control and cost governance of the AI chat backend:           *)
(*   app/core/cost_guard.py   daily-cost cache, kill switch, FAQ cache     *)
(*   app/core/rate_limit.py   in-memory and Redis sliding-window limiters  *)
(*   app/core/ownership.py    plan usage limits, durable usage increment   *)
(*   app/api/routes/chat.py   authenticated chat pipeline                  *)
(*   app/api/routes/demo.py   public demo chat pipeline                    *)
(*                                                                         *)
(* Money is counted in units of 1e-8 USD, so that the per-token rates of   *)
(* config.py (0.00000015 and 0.0000006 USD) are the integers 15 and 60 and *)
(* MAX_DAILY_COST_USD (20.0 USD) is 2 000 000 000.  Time is in seconds.    *)
(***************************************************************************)
EXTENDS Integers, Sequences, FiniteSets, TLC

\* ---------------------------------------------------------------- constants
\* app/core/config.py, class Settings (defaults)
MAX_DAILY_COST_USD == 2000000000
COST_PER_INPUT_TOKEN == 15
COST_PER_OUTPUT_TOKEN == 60
DEMO_RATE_LIMIT_PER_IP == 20
DEMO_RATE_LIMIT_PER_SESSION == 10
AUTH_RATE_LIMIT_PER_MINUTE == 10
IP_RATE_LIMIT_PER_MINUTE == 5
DEFAULT_MONTHLY_CONVERSATION_LIMIT == 100
DEFAULT_MONTHLY_TOKEN_LIMIT == 50000
FAQ_CACHE_TTL_HOURS == 24
\* app/core/cost_guard.py
CACHE_TTL_SECS == 60
\* window_secs the chat handlers pass to rate_limiter.check
RATE_WINDOW_SECS == 60

\* ------------------------------------------------------------------- bounds
\* token counts an upstream call reports: 0..MaxTokens each
MaxTokens == 1
\* clock steps a behaviour of the cost-guard specification takes
MaxTicks == 2
\* seconds a behaviour of the rate-limiter specifications lasts
MaxMemTime == 3
\* RedisRateLimiter.check calls a behaviour of the Redis specification starts
MaxChecks == 3
\* record_cost calls and foreign durable increments in the cost-guard spec
MaxRecords == 2
\* store_cached_answer and get_cached_answer calls in the FAQ cache spec
MaxFaqOps == 3
\* record_usage and check_usage_limits calls in the usage-limits spec
MaxQuotaOps == 4

\* ------------------------------------------------------------------ domains
NoDate == -1
\* three consecutive days: the last two days of a month and the first day
\* of the next
Dates == 0 .. 2
MonthFirstDays == {-29, 2}
\* the process starts long after the epoch: time.time() - 0.0 >= 60
StartTime == CACHE_TTL_SECS
\* clock increments: one second, or one second less than the cache TTL
TickSteps == {1, CACHE_TTL_SECS - 1}

DEMO_OWNER_ID == "system"
Tenants == {"t1", "t2"}
Owners == Tenants \cup {DEMO_OWNER_ID}

VARIABLES
    now,          \* time.time()
    today,        \* date.today()
    ticks,        \* clock steps taken so far (bounds the behaviour)
    cost_cache,   \* cost_guard._cost_cache: [value, fetched_at, date]
    usage_daily,  \* table usage_daily: <<owner, date>> -> row
    cg_last,      \* the cost-guard call made last, with what it returned
    cg_records,   \* record_cost calls / foreign increments so far (bound)
    cg_hist,      \* the last successful refresh, and whether the switch is shut
    windows,      \* InMemoryRateLimiter._windows: key -> list of timestamps
    mem_limit,    \* the limit the callers pass for the keys
    mem_window,   \* the window_secs the callers pass for the keys
    mem_admitted, \* <<key, time>> -> attempts admitted with that timestamp
    mem_last,     \* the in-memory check made last, with how it ended
    zset,         \* Redis sorted set rl:<key>: its members (member = score = timestamp)
    z_expire,     \* the time at which Redis drops the key (EXPIRE), or NoExpire
    rd,           \* per worker: the RedisRateLimiter.check call it is running
    rd_limit,     \* the limit the callers pass for the key
    rd_window,    \* the window_secs the callers pass for the key
    rd_admitted,  \* time -> attempts that returned admitted with that timestamp
    rd_accepted,  \* timestamps of attempts whose count was below limit
    rd_started,   \* check calls started so far (bound)
    rd_store_failed, \* whether any store round trip has failed so far
    faq_cache,    \* table faq_cache: <<owner, question_hash>> -> row
    demo_sessions,\* table demo_sessions: session_token -> row
    stores,       \* table stores: owner -> row
    req,          \* the chat requests: where each handler is, what it did
    loop,         \* the request the event loop is running (0: none)
    faq_last,     \* the FAQ cache call made last, with what it returned
    quota_last,   \* the usage call made last, with what it returned
    limiter       \* rate_limit.rate_limiter: the backend built at import

cgVars == <<now, today, ticks, cost_cache, usage_daily, cg_last, cg_records,
           cg_hist>>
memVars == <<windows, mem_limit, mem_window, mem_admitted, mem_last>>
rdVars == <<zset, z_expire, rd, rd_limit, rd_window, rd_admitted, rd_accepted,
            rd_started, rd_store_failed>>
pipeVars == <<faq_cache, demo_sessions, stores, req, loop, faq_last, quota_last,
              limiter>>
vars == <<cgVars, memVars, rdVars, pipeVars>>

\* ------------------------------------------------------------ durable store
UsageRow(cost, convs, toks) ==
    [estimated_cost_usd |-> cost, conversations |-> convs, total_tokens |-> toks]

RECURSIVE SumOver(_, _)
SumOver(S, f) ==
    IF S = {} THEN 0
    ELSE LET x == CHOOSE y \in S : TRUE IN f[x] + SumOver(S \ {x}, f)

\* cost_guard.py:37-41: sum of estimated_cost_usd over every row of the date
DailyTotal(usage, d) ==
    SumOver(Owners, [o \in Owners |-> usage[<<o, d>>].estimated_cost_usd])

\* the database function increment_usage(p_owner_id, ..., p_cost_usd): one
\* atomic additive update of the row of (owner, current date)
IncrementUsage(usage, owner, d, in_tokens, out_tokens, cost) ==
    [usage EXCEPT ![<<owner, d>>] =
        UsageRow(@.estimated_cost_usd + cost,
                 @.conversations + 1,
                 @.total_tokens + in_tokens + out_tokens)]

\* --------------------------------------------------------------- cost guard
CacheInit == [value |-> 0, fetched_at |-> 0, date |-> NoDate]

CacheFreshShort(c, t, d) == c.date = d /\ t - c.fetched_at < CACHE_TTL_SECS - 1

\* cost_guard.py:30-33
CacheFresh(c, t, d) == c.date = d /\ t - c.fetched_at < CACHE_TTL_SECS

GetTodayTotalCostStampingFailure(c, t, d, dbOk, usage) ==
    IF CacheFresh(c, t, d)
    THEN [ret |-> c.value, cache |-> c, queried |-> FALSE]
    ELSE IF dbOk
         THEN [ret |-> DailyTotal(usage, d),
               cache |-> [value |-> DailyTotal(usage, d), fetched_at |-> t, date |-> d],
               queried |-> TRUE]
         ELSE [ret |-> c.value, cache |-> [c EXCEPT !.fetched_at = t, !.date = d],
               queried |-> TRUE]

GetTodayTotalCostZeroOnFailure(c, t, d, dbOk, usage) ==
    IF CacheFresh(c, t, d)
    THEN [ret |-> c.value, cache |-> c, queried |-> FALSE]
    ELSE IF dbOk
         THEN [ret |-> DailyTotal(usage, d),
               cache |-> [value |-> DailyTotal(usage, d), fetched_at |-> t, date |-> d],
               queried |-> TRUE]
         ELSE [ret |-> 0, cache |-> c, queried |-> TRUE]

\* cost_guard.py:25-46.  dbOk: whether the usage_daily query succeeds.
\* Result: the value returned, the cache afterwards, whether the store was queried.
GetTodayTotalCost(c, t, d, dbOk, usage) ==
    IF CacheFresh(c, t, d)
    THEN [ret |-> c.value, cache |-> c, queried |-> FALSE]
    ELSE IF dbOk
         THEN LET total == DailyTotal(usage, d)
              IN [ret |-> total,
                  cache |-> [value |-> total, fetched_at |-> t, date |-> d],
                  queried |-> TRUE]
         ELSE [ret |-> c.value, cache |-> c, queried |-> TRUE]

\* round(today_cost, 4): to the nearest 1e-4 USD = 10000 units
Round4(x) == ((x + 5000) \div 10000) * 10000

KillSwitchTripsStrict(today_cost) == today_cost > MAX_DAILY_COST_USD

\* cost_guard.py:52
KillSwitchTrips(today_cost) == today_cost >= MAX_DAILY_COST_USD

NoDetail == [status |-> 200, daily_cost_usd |-> 0, threshold_usd |-> 0]

\* cost_guard.py:49-67: the outcome and the 503's detail
EnforceKillSwitch(today_cost) ==
    IF KillSwitchTrips(today_cost)
    THEN [outcome |-> "ServiceSuspended",
          detail |-> [status |-> 503,
                      daily_cost_usd |-> Round4(today_cost),
                      threshold_usd |-> MAX_DAILY_COST_USD]]
    ELSE [outcome |-> "ok", detail |-> NoDetail]

\* cost_guard.py:70-75
estimate_cost(input_tokens, output_tokens) ==
    input_tokens * COST_PER_INPUT_TOKEN + output_tokens * COST_PER_OUTPUT_TOKEN

RecordCostOverwrite(c, cost) == [c EXCEPT !.value = cost]

\* cost_guard.py:78-80
RecordCost(c, cost) == [c EXCEPT !.value = @ + cost]

\* amounts handed to record_cost in the cost-guard specification
Costs == {0, estimate_cost(1, 0), estimate_cost(0, 1)}

CgNone ==
    [op |-> "none", ret |-> 0, queried |-> FALSE, fresh |-> FALSE,
     outcome |-> "ok", detail |-> NoDetail, x |-> 0, before |-> 0,
     after_record |-> FALSE, held |-> CacheInit, refreshed |-> FALSE,
     since |-> -1, shut |-> FALSE]

\* no refresh has succeeded and no call was rejected
HistNone == [refresh_at |-> 0, refresh_date |-> NoDate, tripped |-> FALSE]

\* a read at time t on date d: the seconds since the last successful refresh
\* for d (-1: none), whether the read refreshed the cache from the store,
\* and the history after it
SinceRefresh(h, t, d) == IF h.refresh_date = d THEN t - h.refresh_at ELSE -1
Refreshed(c, t, d, dbOk) == ~CacheFresh(c, t, d) /\ dbOk
HistAfterRead(h, c, t, d, dbOk, ret) ==
    IF Refreshed(c, t, d, dbOk)
    THEN [refresh_at |-> t, refresh_date |-> d,
          tripped |-> h.tripped /\ ret >= MAX_DAILY_COST_USD]
    ELSE h

\* durable totals a process can find at start: nothing spent, just below
\* the ceiling, at the ceiling
InitialSpend ==
    {0, MAX_DAILY_COST_USD - COST_PER_OUTPUT_TOKEN, MAX_DAILY_COST_USD}

\* -------------------------------------------------- in-memory rate limiter
ClientIp == "1.1.1.1"
Keys == {"user:t1", "user:t2", "ip:1.1.1.1"}
\* the keys exercised by the in-memory limiter specification
MemKeys == {"user:t1", "ip:1.1.1.1"}
MemTimes == StartTime .. StartTime + MaxMemTime
\* limit and window_secs a caller passes
Limits == {1, 2}
WindowSecs == {1, 3}

PruneKeepingCutoff(ts, cutoff) == SelectSeq(ts, LAMBDA x : x >= cutoff)

\* rate_limit.py:32: [t for t in timestamps if t > cutoff]
Prune(ts, cutoff) == SelectSeq(ts, LAMBDA x : x > cutoff)

MemAtLimitStrict(n, limit) == n > limit

\* rate_limit.py:34
MemAtLimit(n, limit) == n >= limit

MemCheckHintElapsed(w, key, limit, window_secs, t) ==
    LET pruned == Prune(w[key], t - window_secs)
    IN IF MemAtLimit(Len(pruned), limit)
       THEN IF Len(pruned) = 0
            THEN [result |-> "IndexError", retry_after |-> 0,
                  windows |-> [w EXCEPT ![key] = pruned]]
            ELSE [result |-> "RateLimited",
                  retry_after |-> (t - pruned[1]) + 1,
                  windows |-> [w EXCEPT ![key] = pruned]]
       ELSE [result |-> "ok", retry_after |-> 0,
             windows |-> [w EXCEPT ![key] = Append(pruned, t)]]

\* rate_limit.py:26-46.  Result: how the call ends, retry_after_seconds,
\* and self._windows afterwards (the pruned list is stored before the test).
MemCheck(w, key, limit, window_secs, t) ==
    LET pruned == Prune(w[key], t - window_secs)
    IN IF MemAtLimit(Len(pruned), limit)
       THEN IF Len(pruned) = 0
            THEN [result |-> "IndexError", retry_after |-> 0,
                  windows |-> [w EXCEPT ![key] = pruned]]
            ELSE [result |-> "RateLimited",
                  retry_after |-> (window_secs - (t - pruned[1])) + 1,
                  windows |-> [w EXCEPT ![key] = pruned]]
       ELSE [result |-> "ok", retry_after |-> 0,
             windows |-> [w EXCEPT ![key] = Append(pruned, t)]]

\* rate_limit.py:48-52
MemGetCountOp(w, key, window_secs, t) ==
    LET pruned == Prune(w[key], t - window_secs)
    IN [count |-> Len(pruned), windows |-> [w EXCEPT ![key] = pruned]]

MemNone == [op |-> "none", key |-> "user:t1", result |-> "ok", retry_after |-> 0,
            at |-> 0, count |-> 0]

\* ------------------------------------------------------- Redis rate limiter
\* worker processes sharing the Redis store
Workers == {1, 2}
NoExpire == -1

RdIdleCall == [pc |-> "idle", t |-> 0, count |-> 0, outcome |-> "none",
               warnings |-> 0, failed |-> FALSE, oldest |-> 0, retry_after |-> 0]

\* what Redis holds under the key at time t: an expired key reads as empty
Visible(members, expire_at, t) ==
    IF expire_at # NoExpire /\ t >= expire_at THEN {} ELSE members

\* rate_limit.py:69-78: the MULTI/EXEC pipeline executed by Redis in one
\* piece at time t for a call that read the clock value call_now:
\* ZREMRANGEBYSCORE key -inf cutoff; ZCARD key; ZADD key {str(now): now};
\* EXPIRE key window_secs + 1.  count is results[1].
RedisPipeline(members, expire_at, t, call_now, window_secs) ==
    LET kept == {m \in Visible(members, expire_at, t) : m > call_now - window_secs}
    IN [count |-> Cardinality(kept),
        members |-> kept \cup {call_now},
        expire_at |-> t + window_secs + 1]

\* the oldest timestamp ZCARD counted for a call that read call_now (the
\* call's own when it counted none)
RedisOldest(members, expire_at, t, call_now, window_secs) ==
    LET kept == {m \in Visible(members, expire_at, t) : m > call_now - window_secs}
    IN IF kept = {} THEN call_now
       ELSE CHOOSE m \in kept : \A o \in kept : m <= o

\* rate_limit.py:90-92: "retry_after_seconds": window_secs
RedisRetryAfter(window_secs, call_now, oldest) == window_secs

\* rate_limit.py:83: ZREM key str(now)
RedisZrem(members, call_now) == members \ {call_now}

RedisAtLimitStrict(count, limit) == count > limit

\* rate_limit.py:81
RedisAtLimit(count, limit) == count >= limit

RedisOnErrorFailClosed(c) ==
    [c EXCEPT !.pc = "done", !.outcome = "RateLimited",
              !.warnings = @ + 1, !.failed = TRUE]

\* rate_limit.py:95-97: except Exception: logger.warning(...), then return
RedisOnError(c) ==
    [c EXCEPT !.pc = "done", !.outcome = "ok",
              !.warnings = @ + 1, !.failed = TRUE]

\* -------------------------------------------------------- backend selection
build_rate_limiterAlwaysLocal(redis_url, ctorOk) ==
    [backend |-> "memory", configured |-> redis_url, fell_back |-> redis_url /\ ~ctorOk]

\* rate_limit.py:109-119.  redis_url: whether settings.REDIS_URL is set;
\* ctorOk: whether RedisRateLimiter(redis_url) returns (it imports
\* redis.asyncio and parses the URL without connecting).  Result: the class
\* of the limiter returned, with what the start-up log says.
build_rate_limiter(redis_url, ctorOk) ==
    IF redis_url /\ ctorOk
    THEN [backend |-> "redis", configured |-> TRUE, fell_back |-> FALSE]
    ELSE [backend |-> "memory", configured |-> redis_url, fell_back |-> redis_url]

\* ---------------------------------------------------------------- FAQ cache
NoRow == [present |-> FALSE, answer_text |-> "", hit_count |-> 0, expires_at |-> 0]

LowerKeepingCase(c) == c

FaqSelectKeepingExpired(cache, owner_id, h, t) ==
    IF cache[<<owner_id, h>>].present /\ cache[<<owner_id, h>>].expires_at >= t
    THEN cache[<<owner_id, h>>] ELSE NoRow

\* a text is a sequence of characters
Lower(c) == IF c = "A" THEN "a" ELSE IF c = "B" THEN "b" ELSE c

\* cost_guard.py:86: " ".join(text.lower().strip().split())
RECURSIVE NormaliseFrom(_, _, _, _)
NormaliseFrom(text, i, acc, gap) ==
    IF i > Len(text) THEN acc
    ELSE LET c == Lower(text[i])
         IN IF c = " "
            THEN NormaliseFrom(text, i + 1, acc, TRUE)
            ELSE NormaliseFrom(text, i + 1,
                               IF gap /\ acc # <<>> THEN acc \o <<" ", c>>
                               ELSE Append(acc, c),
                               FALSE)

\* cost_guard.py:84-87.  sha256 is taken as injective on the model's texts:
\* the digest stands for the normalised text it is computed from.
hash_question(text) == NormaliseFrom(text, 1, <<>>, FALSE)

\* messages after ChatRequest.check_message (stripped, not empty)
Questions == {<<"a">>, <<"A">>}
\* the requests ask one question, the later one in the other spelling
QuestionOf(r) == IF r = 1 THEN <<"a">> ELSE <<"A">>
Hashes == {hash_question(q) : q \in Questions}

\* Optional[str]
None == [some |-> FALSE, text |-> ""]
Some(text) == [some |-> TRUE, text |-> text]
\* Python truth value of an Optional[str]: None and "" are false
Truthy(opt) == opt.some /\ opt.text # ""

FaqSelectAnyOwner(cache, owner_id, h, t) ==
    LET rows == {o \in Owners : cache[<<o, h>>].present /\ cache[<<o, h>>].expires_at > t}
    IN IF rows = {} THEN NoRow
       ELSE cache[<<CHOOSE o \in rows : \A p \in rows : cache[<<p, h>>].expires_at <= cache[<<o, h>>].expires_at, h>>]

\* cost_guard.py:94-98: the row of (owner_id, question_hash) with expires_at > now()
FaqSelect(cache, owner_id, h, t) ==
    LET row == cache[<<owner_id, h>>]
    IN IF row.present /\ row.expires_at > t THEN row ELSE NoRow

\* cost_guard.py:90-109.  selOk, bumpOk: whether the select and the
\* hit_count update succeed.  Result: the Optional[str] returned, whether a
\* valid row was found, whether the except branch ran, the table afterwards.
get_cached_answer(cache, owner_id, question, t, selOk, bumpOk) ==
    LET h == hash_question(question)
        row == FaqSelect(cache, owner_id, h, t)
    IN IF ~selOk
       THEN [ret |-> None, found |-> FALSE, raised |-> TRUE, cache |-> cache]
       ELSE IF ~row.present
       THEN [ret |-> None, found |-> FALSE, raised |-> FALSE, cache |-> cache]
       ELSE IF ~bumpOk
       THEN [ret |-> None, found |-> TRUE, raised |-> TRUE, cache |-> cache]
       ELSE [ret |-> Some(row.answer_text), found |-> TRUE, raised |-> FALSE,
             cache |-> [cache EXCEPT ![<<owner_id, h>>].hit_count = @ + 1]]

\* cost_guard.py:112-134.  upOk: whether the upsert succeeds.
store_cached_answer(cache, owner_id, question, answer, t, upOk) ==
    IF upOk
    THEN [cache EXCEPT ![<<owner_id, hash_question(question)>>] =
             [present |-> TRUE, answer_text |-> answer, hit_count |-> 1,
              expires_at |-> t + FAQ_CACHE_TTL_HOURS * 3600]]
    ELSE cache

\* questions and answers handed to the cache in the FAQ cache specification:
\* one question in two spellings (case, leading, trailing and repeated
\* blanks), and another question
FaqTexts ==
    {<<"a", " ", "b">>, <<" ", "A", " ", " ", "B", " ">>, <<"a", "b">>}
\* how a lookup's store round trips go
LookupRuns == {"ok", "select_fails", "update_fails"}
FaqHashes == {hash_question(q) : q \in FaqTexts}
Answers == {"hello", "bye"}
\* time steps that reach the last second before an entry expires, and the
\* second it expires
FaqTickSteps == {1, FAQ_CACHE_TTL_HOURS * 3600 - 1}

NoStored == [valid |-> FALSE, owner |-> "t1", q |-> <<>>, answer |-> "", at |-> 0]
FaqNone ==
    [op |-> "none", ops |-> 0, owner |-> "t1", q |-> <<>>, ok |-> FALSE,
     run |-> "none", ret |-> None, prior |-> NoRow, stored |-> NoStored]

\* ------------------------------------------------------------- usage limits
NoStore == [present |-> FALSE, conv_limit |-> 0, tok_limit |-> 0]
DefaultStore == [present |-> TRUE,
                 conv_limit |-> DEFAULT_MONTHLY_CONVERSATION_LIMIT,
                 tok_limit |-> DEFAULT_MONTHLY_TOKEN_LIMIT]

MonthStartOfFirstMonth(d) ==
    CHOOSE f \in MonthFirstDays : \A g \in MonthFirstDays : f <= g

\* ownership.py:87: date.today().replace(day=1), the first day of the month of d
MonthStart(d) ==
    CHOOSE f \in MonthFirstDays :
       f <= d /\ \A g \in MonthFirstDays : g <= d => g <= f

\* ownership.py:89-95
MonthConversations(usage, owner_id, d) ==
    SumOver({e \in Dates : e >= MonthStart(d)},
            [e \in Dates |-> usage[<<owner_id, e>>].conversations])

MonthTokens(usage, owner_id, d) ==
    SumOver({e \in Dates : e >= MonthStart(d)},
            [e \in Dates |-> usage[<<owner_id, e>>].total_tokens])

check_usage_limitsTokensFirst(usage, owner_id, store, d, dbOk) ==
    IF ~dbOk THEN "ok"
    ELSE IF MonthTokens(usage, owner_id, d) >= store.tok_limit
         THEN "tokens"
    ELSE IF MonthConversations(usage, owner_id, d) >= store.conv_limit
         THEN "conversations"
    ELSE "ok"

\* ownership.py:71-124.  dbOk: whether the usage_daily read succeeds.
check_usage_limits(usage, owner_id, store, d, dbOk) ==
    IF ~dbOk THEN "ok"
    ELSE IF MonthConversations(usage, owner_id, d) >= store.conv_limit
         THEN "conversations"
    ELSE IF MonthTokens(usage, owner_id, d) >= store.tok_limit
         THEN "tokens"
    ELSE "ok"

\* plan limits of the stores, and the calls, of the usage-limits specification
QuotaLimits == {1, 2}
QuotaNone ==
    [op |-> "none", ops |-> 0, owner |-> "t1", ok |-> FALSE, ret |-> "ok"]

\* ------------------------------------------------------------ demo sessions
Tokens == {"s1", "s2"}
\* the order in which unused tokens are handed out
Earlier(a, b) == a = "s1" /\ b = "s2"
NoSession == [present |-> FALSE, ip_address |-> "", message_count |-> 0]

\* demo.py:93-96
IpTotal(sessions, ip) ==
    SumOver({k \in Tokens : sessions[k].present /\ sessions[k].ip_address = ip},
            [k \in Tokens |-> sessions[k].message_count])

\* demo.py:86-131 with a reachable store.  fresh: the token
\* secrets.token_urlsafe would return.  Result: how the call ends, the
\* session token returned, the table afterwards.
get_or_create_session(sessions, ip, session_token, fresh) ==
    IF IpTotal(sessions, ip) >= DEMO_RATE_LIMIT_PER_IP
    THEN [result |-> "daily_limit", token |-> "none", sessions |-> sessions]
    ELSE IF session_token # "none" /\ sessions[session_token].present
    THEN IF sessions[session_token].message_count >= DEMO_RATE_LIMIT_PER_SESSION
         THEN [result |-> "session_limit", token |-> "none", sessions |-> sessions]
         ELSE [result |-> "ok", token |-> session_token, sessions |-> sessions]
    ELSE [result |-> "ok", token |-> fresh,
          sessions |-> [sessions EXCEPT ![fresh] =
                           [present |-> TRUE, ip_address |-> ip, message_count |-> 0]]]

\* demo.py:236-238, 282-284: message_count + 1 on the session's row
BumpSession(sessions, token) ==
    [sessions EXCEPT ![token].message_count = @ + 1]

\* ------------------------------------------------------------ chat handlers
Requests == {1, 2}
\* completions: message.content with response.usage, which may be absent
\* (counted as 0, 0)
Completions ==
    {[reply |-> "hello", in_tokens |-> 0, out_tokens |-> 0],
     [reply |-> "hello", in_tokens |-> MaxTokens, out_tokens |-> 0],
     [reply |-> "", in_tokens |-> 0, out_tokens |-> MaxTokens]}

\* one thing a handler did: the call, how it ended, for whom, the amount
Event(ev, res, who, amt) == [ev |-> ev, res |-> res, who |-> who, amt |-> amt]

ReqNew ==
    [pc |-> "new", kind |-> "auth", owner |-> "t1", ip |-> ClientIp,
     q |-> <<"a">>, token |-> "none", session |-> "none", outcome |-> "none",
     found |-> FALSE, cached |-> None, reply |-> "", in_tokens |-> 0,
     out_tokens |-> 0, cost |-> 0, events |-> <<>>, writes |-> {}]

HandlerTailStoringFirst(kind, pc) ==
    IF kind = "auth"
    THEN CASE pc = "store" -> "quota" [] pc = "quota" -> "settings"
           [] pc = "settings" -> "cache" [] pc = "cache" -> "upstream"
           [] pc = "upstream" -> "cache_store" [] pc = "cache_store" -> "cost"
           [] pc = "cost" -> "usage" [] OTHER -> "done"
    ELSE CASE pc = "session" -> "cache" [] pc = "cache" -> "upstream"
           [] pc = "upstream" -> "cache_store" [] pc = "cache_store" -> "cost"
           [] pc = "cost" -> "session_count" [] pc = "session_count" -> "log"
           [] pc = "hit_count" -> "hit_log" [] OTHER -> "done"

\* the statements after the kill switch and the rate limit:
\* chat.py:119-174 (authenticated_chat), demo.py:230-290 (demo_chat)
HandlerTail(kind, pc) ==
    IF kind = "auth"
    THEN CASE pc = "store" -> "quota" [] pc = "quota" -> "settings"
           [] pc = "settings" -> "cache" [] pc = "cache" -> "upstream"
           [] pc = "upstream" -> "cost" [] pc = "cost" -> "usage"
           [] pc = "usage" -> "cache_store" [] OTHER -> "done"
    ELSE CASE pc = "session" -> "cache" [] pc = "cache" -> "upstream"
           [] pc = "upstream" -> "cost" [] pc = "cost" -> "cache_store"
           [] pc = "cache_store" -> "session_count" [] pc = "session_count" -> "log"
           [] pc = "hit_count" -> "hit_log" [] OTHER -> "done"

AfterSkippingQuota(kind, pc) ==
    CASE pc = "new" -> "kill"
      [] pc = "kill" -> "rate"
      [] pc = "rate" -> (IF kind = "auth" THEN "store" ELSE "session")
      [] pc = "store" -> "settings"
      [] OTHER -> HandlerTail(kind, pc)

AfterRateFirst(kind, pc) ==
    CASE pc = "new" -> "rate"
      [] pc = "rate" -> "kill"
      [] pc = "kill" -> (IF kind = "auth" THEN "store" ELSE "session")
      [] OTHER -> HandlerTail(kind, pc)

\* the statement a handler runs after the one at pc, when that one returns:
\* chat.py:109-174 (authenticated_chat), demo.py:220-290 (demo_chat)
After(kind, pc) ==
    CASE pc = "new" -> "kill"
      [] pc = "kill" -> "rate"
      [] pc = "rate" -> (IF kind = "auth" THEN "store" ELSE "session")
      [] OTHER -> HandlerTail(kind, pc)

\* the handler's statement returned: it goes on to the next one (and has
\* answered the request when there is none)
Pass(rq, e, wr) ==
    LET nxt == After(rq.kind, rq.pc)
    IN [rq EXCEPT !.events = Append(@, e), !.writes = @ \cup wr, !.pc = nxt,
                  !.outcome = IF nxt = "done" THEN "Admitted" ELSE @]

\* the handler's statement raised, or the handler returned early
End(rq, e, wr, out) ==
    [rq EXCEPT !.events = Append(@, e), !.writes = @ \cup wr,
               !.pc = "done", !.outcome = out]

Wrote(name, before, after) == IF before = after THEN {} ELSE {name}

\* chat.py:113-117, demo.py:224-228
RateKeyName(rq) ==
    IF rq.kind = "auth"
    THEN (IF rq.owner = "t1" THEN "user:t1" ELSE "user:t2")
    ELSE "ip:1.1.1.1"
RateLimit(rq) ==
    IF rq.kind = "auth" THEN AUTH_RATE_LIMIT_PER_MINUTE ELSE IP_RATE_LIMIT_PER_MINUTE

\* a window holding n admitted attempts made at time t
Burst(n, t) == [i \in 1 .. n |-> t]

\* ============================================================ specifications
\* each specification exercises one component; the state of the others rests
MemIdle ==
    /\ windows = [k \in Keys |-> <<>>]
    /\ mem_limit = 1
    /\ mem_window = 1
    /\ mem_admitted = [k \in MemKeys \X MemTimes |-> 0]
    /\ mem_last = MemNone

RdIdle ==
    /\ zset = {}
    /\ z_expire = NoExpire
    /\ rd = [w \in Workers |-> RdIdleCall]
    /\ rd_limit = 1
    /\ rd_window = 1
    /\ rd_admitted = [u \in MemTimes |-> 0]
    /\ rd_accepted = {}
    /\ rd_started = 0
    /\ rd_store_failed = FALSE

PipeIdle ==
    /\ faq_cache = [k \in Owners \X Hashes |-> NoRow]
    /\ demo_sessions = [k \in Tokens |-> NoSession]
    /\ stores = [o \in Tenants |-> DefaultStore]
    /\ req = [r \in Requests |-> ReqNew]
    /\ loop = 0
    /\ faq_last = FaqNone
    /\ quota_last = QuotaNone

CgIdle ==
    /\ today = 0
    /\ cost_cache = CacheInit
    /\ usage_daily = [k \in Owners \X Dates |-> UsageRow(0, 0, 0)]
    /\ cg_last = CgNone
    /\ cg_records = 0
    /\ cg_hist = HistNone

\* ------------------------------------------------ cost-guard specification
CgInit ==
    /\ now = StartTime
    /\ today = 0
    /\ ticks = 0
    /\ cost_cache = CacheInit
    /\ \E s \in InitialSpend :
          usage_daily = [k \in Owners \X Dates |->
                            IF k = <<DEMO_OWNER_ID, 0>> THEN UsageRow(s, 0, 0)
                            ELSE UsageRow(0, 0, 0)]
    /\ cg_last = CgNone
    /\ cg_records = 0
    /\ cg_hist = HistNone
    /\ MemIdle
    /\ RdIdle
    /\ PipeIdle
    /\ limiter = build_rate_limiter(FALSE, TRUE)

\* a caller runs get_today_total_cost()
CgGet ==
    \E dbOk \in BOOLEAN :
        LET r == GetTodayTotalCost(cost_cache, now, today, dbOk, usage_daily)
        IN /\ cost_cache' = r.cache
           /\ cg_last' = [CgNone EXCEPT
                            !.op = "get", !.ret = r.ret, !.queried = r.queried,
                            !.fresh = CacheFresh(cost_cache, now, today),
                            !.x = cg_last.x, !.before = cg_last.before,
                            !.after_record = (cg_last.op = "record"),
                            !.held = cost_cache,
                            !.refreshed = Refreshed(cost_cache, now, today, dbOk),
                            !.since = SinceRefresh(cg_hist, now, today)]
           /\ cg_hist' = HistAfterRead(cg_hist, cost_cache, now, today, dbOk, r.ret)
           /\ UNCHANGED <<now, today, ticks, usage_daily, cg_records>>

\* a caller runs enforce_kill_switch()
CgEnforce ==
    \E dbOk \in BOOLEAN :
        LET r == GetTodayTotalCost(cost_cache, now, today, dbOk, usage_daily)
            k == EnforceKillSwitch(r.ret)
            h == HistAfterRead(cg_hist, cost_cache, now, today, dbOk, r.ret)
        IN /\ cost_cache' = r.cache
           /\ cg_last' = [CgNone EXCEPT
                            !.op = "enforce", !.ret = r.ret, !.queried = r.queried,
                            !.fresh = CacheFresh(cost_cache, now, today),
                            !.outcome = k.outcome, !.detail = k.detail,
                            !.held = cost_cache,
                            !.refreshed = Refreshed(cost_cache, now, today, dbOk),
                            !.since = SinceRefresh(cg_hist, now, today),
                            !.shut = h.tripped]
           /\ cg_hist' = [h EXCEPT !.tripped = @ \/ k.outcome # "ok"]
           /\ UNCHANGED <<now, today, ticks, usage_daily, cg_records>>

\* a caller runs record_cost(x)
CgRecord ==
    \E x \in Costs :
        /\ cg_records < MaxRecords
        /\ cg_records' = cg_records + 1
        /\ cost_cache' = RecordCost(cost_cache, x)
        /\ cg_last' = [CgNone EXCEPT
                         !.op = "record", !.x = x, !.before = cost_cache.value]
        /\ UNCHANGED <<now, today, ticks, usage_daily, cg_hist>>

\* some process (this one or another worker) persists usage: record_usage
CgDurableAdd ==
    \E o \in {"t1", DEMO_OWNER_ID} :
        /\ cg_records < MaxRecords
        /\ cg_records' = cg_records + 1
        /\ usage_daily' =
              IncrementUsage(usage_daily, o, today, 0, 1, estimate_cost(0, 1))
        /\ cg_last' = [CgNone EXCEPT !.op = "durable"]
        /\ UNCHANGED <<now, today, ticks, cost_cache, cg_hist>>

\* time passes within the day
Tick ==
    \E dt \in TickSteps :
        /\ ticks < MaxTicks
        /\ ticks' = ticks + 1
        /\ now' = now + dt
        /\ cg_last' = [CgNone EXCEPT !.op = "tick"]
        /\ UNCHANGED <<today, cost_cache, usage_daily, cg_records, cg_hist>>

\* midnight passes: the calendar date changes
Midnight ==
    /\ ticks < MaxTicks
    /\ today + 1 \in Dates
    /\ ticks' = ticks + 1
    /\ today' = today + 1
    /\ now' = now + 1
    /\ cg_last' = [CgNone EXCEPT !.op = "midnight"]
    /\ cg_hist' = [cg_hist EXCEPT !.tripped = FALSE]
    /\ UNCHANGED <<cost_cache, usage_daily, cg_records>>

CgNext ==
    (CgGet \/ CgEnforce \/ CgRecord \/ CgDurableAdd \/ Tick \/ Midnight)
        /\ UNCHANGED <<memVars, rdVars, pipeVars>>

SpecCost == CgInit /\ [][CgNext]_vars

\* ------------------------------------------- in-memory limiter specification
MemInit ==
    /\ now = StartTime
    /\ ticks = 0
    /\ CgIdle
    /\ windows = [k \in Keys |-> <<>>]
    /\ mem_limit \in Limits
    /\ mem_window \in WindowSecs
    /\ mem_admitted = [k \in MemKeys \X MemTimes |-> 0]
    /\ mem_last = MemNone
    /\ RdIdle
    /\ PipeIdle
    /\ limiter = build_rate_limiter(FALSE, TRUE)

\* a request handler runs rate_limiter.check(key, limit, window_secs); the
\* coroutine has no await inside, so the event loop runs it in one piece
MemCheckCall ==
    \E key \in MemKeys :
        LET r == MemCheck(windows, key, mem_limit, mem_window, now)
        IN /\ windows' = r.windows
           /\ mem_admitted' =
                 IF r.result = "ok"
                 THEN [mem_admitted EXCEPT ![<<key, now>>] = @ + 1]
                 ELSE mem_admitted
           /\ mem_last' = [MemNone EXCEPT !.op = "check", !.key = key,
                             !.result = r.result, !.at = now,
                             !.retry_after = r.retry_after,
                             !.count = Len(Prune(windows[key], now - mem_window))]
           /\ UNCHANGED <<now, ticks, mem_limit, mem_window>>

\* a caller runs rate_limiter.get_count(key, window_secs)
MemGetCount ==
    \E key \in MemKeys :
        LET r == MemGetCountOp(windows, key, mem_window, now)
        IN /\ windows' = r.windows
           /\ mem_last' = [MemNone EXCEPT !.op = "get_count", !.key = key,
                             !.at = now, !.count = r.count]
           /\ UNCHANGED <<now, ticks, mem_limit, mem_window, mem_admitted>>

\* one second passes
MemTick ==
    /\ now < StartTime + MaxMemTime
    /\ now' = now + 1
    /\ mem_last' = [MemNone EXCEPT !.op = "tick"]
    /\ UNCHANGED <<ticks, windows, mem_limit, mem_window, mem_admitted>>

MemNext ==
    (MemCheckCall \/ MemGetCount \/ MemTick)
        /\ UNCHANGED <<today, cost_cache, usage_daily, cg_last, cg_records, cg_hist,
                      rdVars, pipeVars>>

SpecMem == MemInit /\ [][MemNext]_vars

\* ---------------------------------------------- Redis limiter specification
\* what the Redis limiter leaves alone
rdForeign == <<today, ticks, cost_cache, usage_daily, cg_last, cg_records, cg_hist, memVars,
               pipeVars>>

RdInit ==
    /\ now = StartTime
    /\ ticks = 0
    /\ CgIdle
    /\ MemIdle
    /\ PipeIdle
    /\ zset = {}
    /\ z_expire = NoExpire
    /\ rd = [w \in Workers |-> RdIdleCall]
    /\ rd_limit \in Limits
    /\ rd_window \in WindowSecs
    /\ rd_admitted = [u \in MemTimes |-> 0]
    /\ rd_accepted = {}
    /\ rd_started = 0
    /\ rd_store_failed = FALSE
    /\ limiter = build_rate_limiter(TRUE, TRUE)

\* rate_limit.py:62-66: a worker enters check and reads time.time()
RdBegin(w) ==
    /\ rd[w].pc \in {"idle", "done"}
    /\ rd_started < MaxChecks
    /\ rd_started' = rd_started + 1
    /\ rd' = [rd EXCEPT ![w] = [RdIdleCall EXCEPT !.pc = "pipeline", !.t = now]]
    /\ UNCHANGED <<now, zset, z_expire, rd_limit, rd_window, rd_admitted,
                   rd_accepted, rd_store_failed>>

\* rate_limit.py:69-81: await pipe.execute() succeeds; below the limit the
\* call returns (admitted), at or above it the call goes on to ZREM
RdPipeline(w) ==
    /\ rd[w].pc = "pipeline"
    /\ LET r == RedisPipeline(zset, z_expire, now, rd[w].t, rd_window)
           full == RedisAtLimit(r.count, rd_limit)
       IN /\ zset' = r.members
          /\ z_expire' = r.expire_at
          /\ rd' = [rd EXCEPT ![w].count = r.count,
                              ![w].oldest = RedisOldest(zset, z_expire, now, rd[w].t,
                                                        rd_window),
                              ![w].pc = IF full THEN "zrem" ELSE "done",
                              ![w].outcome = IF full THEN "none" ELSE "ok"]
          /\ rd_admitted' = IF full THEN rd_admitted
                            ELSE [rd_admitted EXCEPT ![rd[w].t] = @ + 1]
          /\ rd_accepted' = IF full THEN rd_accepted
                            ELSE rd_accepted \cup {rd[w].t}
    /\ UNCHANGED <<now, rd_limit, rd_window, rd_started, rd_store_failed>>

\* rate_limit.py:78, 95-97: the store is unreachable at pipe.execute()
RdPipelineFails(w) ==
    /\ rd[w].pc = "pipeline"
    /\ rd' = [rd EXCEPT ![w] = RedisOnError(@)]
    /\ rd_admitted' = IF rd'[w].outcome = "ok"
                      THEN [rd_admitted EXCEPT ![rd[w].t] = @ + 1]
                      ELSE rd_admitted
    /\ rd_store_failed' = TRUE
    /\ UNCHANGED <<now, zset, z_expire, rd_limit, rd_window, rd_accepted, rd_started>>

\* rate_limit.py:83-92: the compensating ZREM succeeds, then HTTP 429
RdZrem(w) ==
    /\ rd[w].pc = "zrem"
    /\ zset' = RedisZrem(zset, rd[w].t)
    /\ rd' = [rd EXCEPT ![w].pc = "done", ![w].outcome = "RateLimited",
                        ![w].retry_after =
                            RedisRetryAfter(rd_window, rd[w].t, rd[w].oldest)]
    /\ UNCHANGED <<now, z_expire, rd_limit, rd_window, rd_admitted, rd_accepted,
                   rd_started, rd_store_failed>>

\* rate_limit.py:83, 95-97: the store is unreachable at the ZREM
RdZremFails(w) ==
    /\ rd[w].pc = "zrem"
    /\ rd' = [rd EXCEPT ![w] = RedisOnError(@)]
    /\ rd_admitted' = IF rd'[w].outcome = "ok"
                      THEN [rd_admitted EXCEPT ![rd[w].t] = @ + 1]
                      ELSE rd_admitted
    /\ rd_store_failed' = TRUE
    /\ UNCHANGED <<now, zset, z_expire, rd_limit, rd_window, rd_accepted, rd_started>>

\* one second passes.  A store round trip takes milliseconds: a call ends
\* within the clock second in which it read time.time()
RdTick ==
    /\ \A w \in Workers : rd[w].pc \in {"idle", "done"}
    /\ now < StartTime + MaxMemTime
    /\ now' = now + 1
    /\ UNCHANGED rdVars

RdNext ==
    \/ \E w \in Workers : RdBegin(w) /\ UNCHANGED rdForeign
    \/ \E w \in Workers : RdPipeline(w) /\ UNCHANGED rdForeign
    \/ \E w \in Workers : RdPipelineFails(w) /\ UNCHANGED rdForeign
    \/ \E w \in Workers : RdZrem(w) /\ UNCHANGED rdForeign
    \/ \E w \in Workers : RdZremFails(w) /\ UNCHANGED rdForeign
    \/ RdTick /\ UNCHANGED rdForeign

SpecRedis == RdInit /\ [][RdNext]_vars

\* ------------------------------------------------- chat pipeline specification
\* One worker process with the default in-memory rate limiter (REDIS_URL
\* unset).  The Supabase client is synchronous and the in-memory limiter
\* never suspends, so a handler runs on the event loop without interruption
\* except while it awaits the upstream completion.
\* what the deployment has seen before the requests arrive: nothing, a day's
\* spend at the ceiling, a day's spend just below it, a minute's worth of admitted attempts on every key,
\* tenant t1 one conversation below its monthly limit, a demo session one
\* message below its cap, the client address at its daily demo cap
Loads == {"quiet", "spent", "nearly_spent", "burst", "quota", "session_cap", "ip_cap"}

pipeFixed == <<now, today, ticks, cg_last, cg_records, cg_hist, mem_limit, mem_window,
               mem_admitted, mem_last, rdVars, stores, faq_last, quota_last, limiter>>

PipeInit ==
    /\ now = StartTime
    /\ today = 0
    /\ ticks = 0
    /\ cost_cache = CacheInit
    /\ \E load \in Loads :
          /\ usage_daily = [k \in Owners \X Dates |->
                               IF k = <<DEMO_OWNER_ID, 0>> /\ load = "spent"
                               THEN UsageRow(MAX_DAILY_COST_USD, 0, 0)
                               ELSE IF k = <<DEMO_OWNER_ID, 0>> /\ load = "nearly_spent"
                               THEN UsageRow(MAX_DAILY_COST_USD - 1, 0, 0)
                               ELSE IF k = <<"t1", 0>> /\ load = "quota"
                               THEN UsageRow(0, DEFAULT_MONTHLY_CONVERSATION_LIMIT - 1, 0)
                               ELSE UsageRow(0, 0, 0)]
          /\ windows = [k \in Keys |->
                           IF load # "burst" THEN <<>>
                           ELSE IF k = "ip:1.1.1.1"
                                THEN Burst(IP_RATE_LIMIT_PER_MINUTE, StartTime)
                                ELSE Burst(AUTH_RATE_LIMIT_PER_MINUTE, StartTime)]
          /\ demo_sessions = [k \in Tokens |->
                                 IF load = "ip_cap"
                                 THEN [present |-> TRUE, ip_address |-> ClientIp,
                                       message_count |-> DEMO_RATE_LIMIT_PER_SESSION]
                                 ELSE IF load = "session_cap" /\ k = "s1"
                                 THEN [present |-> TRUE, ip_address |-> ClientIp,
                                       message_count |-> DEMO_RATE_LIMIT_PER_SESSION - 1]
                                 ELSE NoSession]
    /\ cg_last = CgNone
    /\ cg_records = 0
    /\ cg_hist = HistNone
    /\ mem_limit = 1
    /\ mem_window = 1
    /\ mem_admitted = [k \in MemKeys \X MemTimes |-> 0]
    /\ mem_last = MemNone
    /\ RdIdle
    /\ faq_cache = [k \in Owners \X Hashes |-> NoRow]
    /\ stores = [o \in Tenants |-> IF o = "t1" THEN DefaultStore ELSE NoStore]
    /\ req = [r \in Requests |-> ReqNew]
    /\ loop = 0
    /\ faq_last = FaqNone
    /\ quota_last = QuotaNone
    /\ limiter = build_rate_limiter(FALSE, TRUE)

\* the event loop after request r made a step: free when r has answered or
\* awaits the upstream completion
LoopAfter(r) == loop' = IF req'[r].pc \in {"done", "upstream"} THEN 0 ELSE r

\* a request arrives and its handler starts (chat.py:94-107, demo.py:212-218)
PStart(r) ==
    /\ loop = 0
    /\ req[r].pc = "new"
    /\ \A q \in Requests : q < r => req[q].pc # "new"
    /\ \E kind \in {"auth", "demo"}, owner \in Tenants, q \in Questions,
          token \in {"none", "s1"} :
          /\ q = QuestionOf(r)
          /\ kind = "auth" => token = "none"
          /\ kind = "demo" => owner = "t1"
          /\ req' = [req EXCEPT ![r] =
                        [ReqNew EXCEPT !.kind = kind,
                                       !.owner = IF kind = "auth" THEN owner
                                                 ELSE DEMO_OWNER_ID,
                                       !.q = q, !.token = token,
                                       !.pc = After(kind, "new")]]
    /\ loop' = r
    /\ UNCHANGED <<cost_cache, usage_daily, windows, faq_cache, demo_sessions, pipeFixed>>

\* chat.py:110, demo.py:221: await enforce_kill_switch()
PKill(r) ==
    /\ loop = r
    /\ req[r].pc = "kill"
    /\ \E dbOk \in BOOLEAN :
          LET g == GetTodayTotalCost(cost_cache, now, today, dbOk, usage_daily)
              k == EnforceKillSwitch(g.ret)
              e == Event("kill", k.outcome, req[r].owner, g.ret)
              wr == Wrote("cost_cache", cost_cache, g.cache)
          IN /\ cost_cache' = g.cache
             /\ req' = [req EXCEPT ![r] =
                           IF k.outcome = "ok" THEN Pass(@, e, wr)
                           ELSE End(@, e, wr, "ServiceSuspended")]
    /\ LoopAfter(r)
    /\ UNCHANGED <<usage_daily, windows, faq_cache, demo_sessions, pipeFixed>>

\* chat.py:113-117, demo.py:224-228: await rate_limiter.check(...)
PRate(r) ==
    /\ loop = r
    /\ req[r].pc = "rate"
    /\ LET c == MemCheck(windows, RateKeyName(req[r]), RateLimit(req[r]),
                         RATE_WINDOW_SECS, now)
           e == Event("rate", c.result, req[r].owner, c.retry_after)
           wr == Wrote("windows", windows, c.windows)
       IN /\ windows' = c.windows
          /\ req' = [req EXCEPT ![r] =
                        IF c.result = "ok" THEN Pass(@, e, wr)
                        ELSE End(@, e, wr, c.result)]
    /\ LoopAfter(r)
    /\ UNCHANGED <<cost_cache, usage_daily, faq_cache, demo_sessions, pipeFixed>>

\* chat.py:120: store = await get_owned_store(owner_id) (ownership.py:22-38)
PAuthStore(r) ==
    /\ loop = r
    /\ req[r].pc = "store"
    /\ \E dbOk \in BOOLEAN :
          LET res == IF ~dbOk THEN "Error"
                     ELSE IF ~stores[req[r].owner].present THEN "NotFound"
                     ELSE "ok"
              e == Event("store", res, req[r].owner, 0)
          IN req' = [req EXCEPT ![r] =
                        IF res = "ok" THEN Pass(@, e, {}) ELSE End(@, e, {}, res)]
    /\ LoopAfter(r)
    /\ UNCHANGED <<cost_cache, usage_daily, windows, faq_cache, demo_sessions, pipeFixed>>

\* chat.py:125: await check_usage_limits(owner_id, store); the event's amount
\* counts the error line logged when the usage read raises (ownership.py:97)
PQuota(r) ==
    /\ loop = r
    /\ req[r].pc = "quota"
    /\ \E dbOk \in BOOLEAN :
          LET res == check_usage_limits(usage_daily, req[r].owner,
                                        stores[req[r].owner], today, dbOk)
              e == Event("quota", res, req[r].owner, IF dbOk THEN 0 ELSE 1)
          IN req' = [req EXCEPT ![r] =
                        IF res = "ok" THEN Pass(@, e, {})
                        ELSE End(@, e, {}, "QuotaExceeded")]
    /\ LoopAfter(r)
    /\ UNCHANGED <<cost_cache, usage_daily, windows, faq_cache, demo_sessions, pipeFixed>>

\* chat.py:128-131: the store_settings read, outside any try
PSettings(r) ==
    /\ loop = r
    /\ req[r].pc = "settings"
    /\ \E dbOk \in BOOLEAN :
          LET e == Event("settings", IF dbOk THEN "ok" ELSE "Error", req[r].owner, 0)
          IN req' = [req EXCEPT ![r] =
                        IF dbOk THEN Pass(@, e, {}) ELSE End(@, e, {}, "Error")]
    /\ LoopAfter(r)
    /\ UNCHANGED <<cost_cache, usage_daily, windows, faq_cache, demo_sessions, pipeFixed>>

\* demo.py:231: session_token = await _get_or_create_session(...); a failed
\* query is not caught
PDemoSession(r) ==
    /\ loop = r
    /\ req[r].pc = "session"
    /\ \E dbOk \in BOOLEAN, fresh \in Tokens :
          /\ IF \E k \in Tokens : ~demo_sessions[k].present
             THEN /\ ~demo_sessions[fresh].present
                  /\ \A k \in Tokens : ~demo_sessions[k].present => ~Earlier(k, fresh)
             ELSE /\ fresh = "s1"
                  /\ IpTotal(demo_sessions, req[r].ip) >= DEMO_RATE_LIMIT_PER_IP
          /\ LET g == get_or_create_session(demo_sessions, req[r].ip,
                                            req[r].token, fresh)
                 res == IF dbOk THEN g.result ELSE "Error"
                 e == Event("session", res, req[r].owner, 0)
                 after == IF dbOk THEN g.sessions ELSE demo_sessions
                 wr == Wrote("sessions", demo_sessions, after)
             IN /\ demo_sessions' = after
                /\ req' = [req EXCEPT ![r] =
                              IF res = "ok"
                              THEN [Pass(@, e, wr) EXCEPT !.session = g.token]
                              ELSE End(@, e, wr, IF res = "Error" THEN "Error"
                                                 ELSE "RateLimited")]
    /\ LoopAfter(r)
    /\ UNCHANGED <<cost_cache, usage_daily, windows, faq_cache, pipeFixed>>

\* chat.py:134-143, demo.py:234-235: cached = await get_cached_answer(...);
\* if cached: ... .  On a miss the handler builds the messages and awaits
\* the upstream completion (chat.py:146-160, demo.py:253-266).
PCache(r) ==
    /\ loop = r
    /\ req[r].pc = "cache"
    /\ \E selOk \in BOOLEAN, bumpOk \in BOOLEAN :
          LET g == get_cached_answer(faq_cache, req[r].owner, req[r].q, now,
                                     selOk, bumpOk)
              e == Event("cache", IF Truthy(g.ret) THEN "hit"
                                  ELSE IF g.ret.some THEN "empty"
                                  ELSE IF g.raised THEN "failed" ELSE "miss",
                         req[r].owner, 0)
              wr == Wrote("faq_cache", faq_cache, g.cache)
              rq == [req[r] EXCEPT !.cached = g.ret, !.found = g.found]
          IN /\ faq_cache' = g.cache
             /\ req' = [req EXCEPT ![r] =
                           IF Truthy(g.ret)
                           THEN IF rq.kind = "auth"
                                THEN [End(rq, e, wr, "Admitted") EXCEPT
                                         !.reply = g.ret.text]
                                ELSE [Pass(rq, e, wr) EXCEPT
                                         !.pc = "hit_count", !.reply = g.ret.text]
                           ELSE Pass(rq, e, wr)]
    /\ LoopAfter(r)
    /\ UNCHANGED <<cost_cache, usage_daily, windows, demo_sessions, pipeFixed>>

\* chat.py:155-166, demo.py:262-272: the awaited completion returns
PUpstreamOk(r) ==
    /\ loop = 0
    /\ req[r].pc = "upstream"
    /\ \E c \in Completions :
          LET e == Event("upstream", "ok", req[r].owner, 0)
          IN req' = [req EXCEPT ![r] =
                        [Pass(@, e, {}) EXCEPT !.reply = c.reply,
                                               !.in_tokens = c.in_tokens,
                                               !.out_tokens = c.out_tokens]]
    /\ LoopAfter(r)
    /\ UNCHANGED <<cost_cache, usage_daily, windows, faq_cache, demo_sessions, pipeFixed>>

\* chat.py:164-166, demo.py:270-272: the awaited completion raises
PUpstreamFail(r) ==
    /\ loop = 0
    /\ req[r].pc = "upstream"
    /\ req' = [req EXCEPT ![r] =
                  End(@, Event("upstream", "Error", req[r].owner, 0), {},
                      "UpstreamUnavailable")]
    /\ LoopAfter(r)
    /\ UNCHANGED <<cost_cache, usage_daily, windows, faq_cache, demo_sessions, pipeFixed>>

\* chat.py:169-170, demo.py:275-276: cost = estimate_cost(...); record_cost(cost)
PCost(r) ==
    /\ loop = r
    /\ req[r].pc = "cost"
    /\ LET cost == estimate_cost(req[r].in_tokens, req[r].out_tokens)
           after == RecordCost(cost_cache, cost)
           e == Event("record_cost", "ok", req[r].owner, cost)
       IN /\ cost_cache' = after
          /\ req' = [req EXCEPT ![r] =
                        [Pass(@, e, Wrote("cost_cache", cost_cache, after))
                            EXCEPT !.cost = cost]]
    /\ LoopAfter(r)
    /\ UNCHANGED <<usage_daily, windows, faq_cache, demo_sessions, pipeFixed>>

PUsageRaising(r) ==
    /\ loop = r
    /\ req[r].pc = "usage"
    /\ \E dbOk \in BOOLEAN :
          LET after == IF dbOk
                       THEN IncrementUsage(usage_daily, req[r].owner, today,
                                           req[r].in_tokens, req[r].out_tokens,
                                           req[r].cost)
                       ELSE usage_daily
              e == Event("record_usage", IF dbOk THEN "ok" ELSE "Error",
                         req[r].owner, req[r].cost)
          IN /\ usage_daily' = after
             /\ req' = [req EXCEPT ![r] = IF dbOk THEN Pass(@, e, {"usage"})
                                          ELSE End(@, e, {}, "Error")]
    /\ LoopAfter(r)
    /\ UNCHANGED <<cost_cache, windows, faq_cache, demo_sessions, pipeFixed>>

\* chat.py:171: await record_usage(owner_id, store_id, in_tokens, out_tokens, cost)
\* (ownership.py:127-145: a failed rpc is logged and swallowed)
PUsage(r) ==
    /\ loop = r
    /\ req[r].pc = "usage"
    /\ \E dbOk \in BOOLEAN :
          LET after == IF dbOk
                       THEN IncrementUsage(usage_daily, req[r].owner, today,
                                           req[r].in_tokens, req[r].out_tokens,
                                           req[r].cost)
                       ELSE usage_daily
              e == Event("record_usage", IF dbOk THEN "ok" ELSE "Error",
                         req[r].owner, req[r].cost)
          IN /\ usage_daily' = after
             /\ req' = [req EXCEPT ![r] = Pass(@, e, IF dbOk THEN {"usage"} ELSE {})]
    /\ LoopAfter(r)
    /\ UNCHANGED <<cost_cache, windows, faq_cache, demo_sessions, pipeFixed>>

\* chat.py:174, demo.py:279: await store_cached_answer(owner, message, reply, model)
PCacheStore(r) ==
    /\ loop = r
    /\ req[r].pc = "cache_store"
    /\ \E upOk \in BOOLEAN :
          LET after == store_cached_answer(faq_cache, req[r].owner, req[r].q,
                                           req[r].reply, now, upOk)
              e == Event("cache_store", IF upOk THEN "ok" ELSE "Error",
                         req[r].owner, 0)
          IN /\ faq_cache' = after
             /\ req' = [req EXCEPT ![r] = Pass(@, e, Wrote("faq_cache", faq_cache, after))]
    /\ LoopAfter(r)
    /\ UNCHANGED <<cost_cache, usage_daily, windows, demo_sessions, pipeFixed>>

\* the demo_sessions update of demo.py:236-238 and 282-284, outside any try
SessionCount(r) ==
    \E dbOk \in BOOLEAN :
       LET after == IF dbOk THEN BumpSession(demo_sessions, req[r].session)
                    ELSE demo_sessions
           e == Event("session_count", IF dbOk THEN "ok" ELSE "Error",
                      req[r].owner, 0)
       IN /\ demo_sessions' = after
          /\ req' = [req EXCEPT ![r] =
                        IF dbOk THEN Pass(@, e, {"sessions"})
                        ELSE End(@, e, {}, "Error")]

\* demo.py:236-238: the session count of a request answered from the cache
PDemoHitCount(r) ==
    /\ loop = r
    /\ req[r].pc = "hit_count"
    /\ SessionCount(r)
    /\ LoopAfter(r)
    /\ UNCHANGED <<cost_cache, usage_daily, windows, faq_cache, pipeFixed>>

\* demo.py:240-250: _log_demo_conversation(..., 0, 0, 0.0, True), then the
\* cached reply is returned; with cache_hit the log never calls record_usage
PDemoHitLog(r) ==
    /\ loop = r
    /\ req[r].pc = "hit_log"
    /\ req' = [req EXCEPT ![r] = Pass(@, Event("log", "ok", req[r].owner, 0), {})]
    /\ LoopAfter(r)
    /\ UNCHANGED <<cost_cache, usage_daily, windows, faq_cache, demo_sessions, pipeFixed>>

\* demo.py:282-284: the session count of a request answered by the upstream
PDemoCount(r) ==
    /\ loop = r
    /\ req[r].pc = "session_count"
    /\ SessionCount(r)
    /\ LoopAfter(r)
    /\ UNCHANGED <<cost_cache, usage_daily, windows, faq_cache, pipeFixed>>

\* demo.py:287-290 with demo.py:134-206: _log_demo_conversation(..., cost,
\* False).  logOk: whether the conversation and message writes before
\* record_usage all succeed; when one raises, record_usage is not reached.
PDemoLog(r) ==
    /\ loop = r
    /\ req[r].pc = "log"
    /\ \E logOk \in BOOLEAN, dbOk \in BOOLEAN :
          /\ ~logOk => dbOk
          /\ LET after == IF logOk /\ dbOk
                          THEN IncrementUsage(usage_daily, DEMO_OWNER_ID, today,
                                              req[r].in_tokens, req[r].out_tokens,
                                              req[r].cost)
                          ELSE usage_daily
                 e == Event("log", IF logOk THEN "ok" ELSE "Error", req[r].owner, 0)
                 u == Event("record_usage", IF dbOk THEN "ok" ELSE "Error",
                            DEMO_OWNER_ID, req[r].cost)
                 rq == Pass(req[r], e, IF logOk /\ dbOk THEN {"usage"} ELSE {})
             IN /\ usage_daily' = after
                /\ req' = [req EXCEPT ![r] =
                              IF logOk THEN [rq EXCEPT !.events = Append(@, u)]
                              ELSE rq]
    /\ LoopAfter(r)
    /\ UNCHANGED <<cost_cache, windows, faq_cache, demo_sessions, pipeFixed>>

PipeNext ==
    \/ \E r \in Requests : PStart(r)
    \/ \E r \in Requests : PKill(r)
    \/ \E r \in Requests : PRate(r)
    \/ \E r \in Requests : PAuthStore(r)
    \/ \E r \in Requests : PQuota(r)
    \/ \E r \in Requests : PSettings(r)
    \/ \E r \in Requests : PDemoSession(r)
    \/ \E r \in Requests : PCache(r)
    \/ \E r \in Requests : PUpstreamOk(r)
    \/ \E r \in Requests : PUpstreamFail(r)
    \/ \E r \in Requests : PCost(r)
    \/ \E r \in Requests : PUsage(r)
    \/ \E r \in Requests : PCacheStore(r)
    \/ \E r \in Requests : PDemoHitCount(r)
    \/ \E r \in Requests : PDemoHitLog(r)
    \/ \E r \in Requests : PDemoCount(r)
    \/ \E r \in Requests : PDemoLog(r)

SpecPipe == PipeInit /\ [][PipeNext]_vars

\* --------------------------------------------------- FAQ cache specification
\* A process stores answers and looks questions up while time passes.
FaqInit ==
    /\ now = StartTime
    /\ ticks = 0
    /\ CgIdle
    /\ MemIdle
    /\ RdIdle
    /\ faq_cache = [k \in Owners \X FaqHashes |-> NoRow]
    /\ demo_sessions = [k \in Tokens |-> NoSession]
    /\ stores = [o \in Tenants |-> DefaultStore]
    /\ req = [r \in Requests |-> ReqNew]
    /\ loop = 0
    /\ faq_last = FaqNone
    /\ quota_last = QuotaNone
    /\ limiter = build_rate_limiter(FALSE, TRUE)

\* a caller runs store_cached_answer(owner, q, a, model)
FaqStore ==
    \E owner \in {"t1"}, q \in FaqTexts, a \in Answers, upOk \in BOOLEAN :
        /\ faq_last.ops < MaxFaqOps
        /\ faq_cache' = store_cached_answer(faq_cache, owner, q, a, now, upOk)
        /\ faq_last' =
              [op |-> "store", ops |-> faq_last.ops + 1, owner |-> owner, q |-> q,
               ok |-> upOk, run |-> "none", ret |-> None,
               prior |-> faq_cache[<<owner, hash_question(q)>>],
               stored |-> IF upOk
                          THEN [valid |-> TRUE, owner |-> owner, q |-> q,
                                answer |-> a, at |-> now]
                          ELSE faq_last.stored]
        /\ UNCHANGED <<now, ticks>>

\* a caller runs get_cached_answer(owner, q)
FaqLookup ==
    \E owner \in {"t1"}, q \in FaqTexts, run \in LookupRuns :
        LET selOk == run # "select_fails"
            bumpOk == run # "update_fails"
            g == get_cached_answer(faq_cache, owner, q, now, selOk, bumpOk)
        IN /\ faq_last.ops < MaxFaqOps
           /\ faq_cache' = g.cache
           /\ faq_last' =
                 [op |-> "lookup", ops |-> faq_last.ops + 1, owner |-> owner,
                  q |-> q, ok |-> selOk /\ bumpOk, run |-> run, ret |-> g.ret,
                  prior |-> faq_cache[<<owner, hash_question(q)>>],
                  stored |-> faq_last.stored]
           /\ UNCHANGED <<now, ticks>>

\* time passes
FaqTick ==
    \E dt \in FaqTickSteps :
        /\ ticks < MaxTicks
        /\ ticks' = ticks + 1
        /\ now' = now + dt
        /\ faq_last' = [faq_last EXCEPT !.op = "tick"]
        /\ UNCHANGED faq_cache

FaqNext ==
    (FaqStore \/ FaqLookup \/ FaqTick)
        /\ UNCHANGED <<today, cost_cache, usage_daily, cg_last, cg_records, cg_hist,
                      memVars, rdVars, demo_sessions, stores, req, loop, quota_last,
                      limiter>>

SpecFaq == FaqInit /\ [][FaqNext]_vars

\* ------------------------------------------- shared FAQ cache specification
\* Two tenants store answers to the same questions and look them up in one
\* faq_cache table while time passes.
TenantTexts == {<<"a", " ", "b">>, <<"a", "b">>}

\* a tenant's request runs store_cached_answer(owner, q, a, model)
TenantStore ==
    \E owner \in Tenants, q \in TenantTexts, a \in Answers, upOk \in BOOLEAN :
        /\ faq_last.ops < MaxFaqOps
        /\ faq_cache' = store_cached_answer(faq_cache, owner, q, a, now, upOk)
        /\ faq_last' =
              [op |-> "store", ops |-> faq_last.ops + 1, owner |-> owner, q |-> q,
               ok |-> upOk, run |-> "none", ret |-> None,
               prior |-> NoRow, stored |-> NoStored]
        /\ UNCHANGED <<now, ticks>>

\* a tenant's request runs get_cached_answer(owner, q)
TenantLookup ==
    \E owner \in Tenants, q \in TenantTexts, run \in LookupRuns :
        LET selOk == run # "select_fails"
            bumpOk == run # "update_fails"
            g == get_cached_answer(faq_cache, owner, q, now, selOk, bumpOk)
        IN /\ faq_last.ops < MaxFaqOps
           /\ faq_cache' = g.cache
           /\ faq_last' =
                 [op |-> "lookup", ops |-> faq_last.ops + 1, owner |-> owner,
                  q |-> q, ok |-> selOk /\ bumpOk, run |-> run, ret |-> g.ret,
                  prior |-> NoRow, stored |-> NoStored]
           /\ UNCHANGED <<now, ticks>>

\* time passes until the entries stored so far have expired
TenantTick ==
    /\ ticks < MaxTicks
    /\ ticks' = ticks + 1
    /\ now' = now + FAQ_CACHE_TTL_HOURS * 3600
    /\ faq_last' = [faq_last EXCEPT !.op = "tick"]
    /\ UNCHANGED faq_cache

TenantNext ==
    (TenantStore \/ TenantLookup \/ TenantTick)
        /\ UNCHANGED <<today, cost_cache, usage_daily, cg_last, cg_records, cg_hist,
                      memVars, rdVars, demo_sessions, stores, req, loop, quota_last,
                      limiter>>

SpecTenants == FaqInit /\ [][TenantNext]_vars

\* ------------------------------------------------ usage-limits specification
\* Tenants with small plan limits use the service over the last two days of
\* a month and the first day of the next; their usage is checked.
QuotaInit ==
    /\ now = StartTime
    /\ today = 0
    /\ ticks = 0
    /\ cost_cache = CacheInit
    /\ usage_daily = [k \in Owners \X Dates |-> UsageRow(0, 0, 0)]
    /\ cg_last = CgNone
    /\ cg_records = 0
    /\ cg_hist = HistNone
    /\ MemIdle
    /\ RdIdle
    /\ faq_cache = [k \in Owners \X Hashes |-> NoRow]
    /\ demo_sessions = [k \in Tokens |-> NoSession]
    /\ \E c \in QuotaLimits, k \in QuotaLimits :
          stores = [o \in Tenants |->
                       [present |-> TRUE, conv_limit |-> c, tok_limit |-> k]]
    /\ req = [r \in Requests |-> ReqNew]
    /\ loop = 0
    /\ faq_last = FaqNone
    /\ quota_last = QuotaNone
    /\ limiter = build_rate_limiter(FALSE, TRUE)

\* a handler runs record_usage(owner, store_id, in_tokens, 0, cost) and the
\* rpc succeeds
QuotaRecord ==
    \E o \in Tenants, n \in {0, MaxTokens} :
        /\ quota_last.ops < MaxQuotaOps
        /\ usage_daily' = IncrementUsage(usage_daily, o, today, n, 0,
                                         estimate_cost(n, 0))
        /\ quota_last' = [QuotaNone EXCEPT !.op = "record", !.owner = o,
                                           !.ops = quota_last.ops + 1]
        /\ UNCHANGED today

\* a handler runs check_usage_limits(owner, store)
QuotaCheck ==
    \E o \in Tenants, dbOk \in BOOLEAN :
        /\ quota_last.ops < MaxQuotaOps
        /\ quota_last' =
              [op |-> "check", ops |-> quota_last.ops + 1, owner |-> o, ok |-> dbOk,
               ret |-> check_usage_limits(usage_daily, o, stores[o], today, dbOk)]
        /\ UNCHANGED <<today, usage_daily>>

\* midnight passes
QuotaMidnight ==
    /\ today + 1 \in Dates
    /\ today' = today + 1
    /\ quota_last' = [quota_last EXCEPT !.op = "midnight"]
    /\ UNCHANGED usage_daily

QuotaNext ==
    (QuotaRecord \/ QuotaCheck \/ QuotaMidnight)
        /\ UNCHANGED <<now, ticks, cost_cache, cg_last, cg_records, cg_hist, memVars,
                      rdVars, faq_cache, demo_sessions, stores, req, loop, faq_last,
                      limiter>>

SpecQuota == QuotaInit /\ [][QuotaNext]_vars

\* ------------------------------------------- backend selection specification
\* Processes import rate_limit with REDIS_URL set or unset, the limiter's
\* construction succeeding or raising; afterwards every check goes through
\* the module's rate_limiter (chat.py:28, demo.py:29).
\* the limit and window_secs the callers pass
BackendCalls ==
    {[limit |-> 0, window_secs |-> 1], [limit |-> 1, window_secs |-> 1],
     [limit |-> 2, window_secs |-> 3]}

BackendInit ==
    /\ now = StartTime
    /\ ticks = 0
    /\ CgIdle
    /\ PipeIdle
    /\ \E redis_url \in BOOLEAN, ctorOk \in BOOLEAN :
          limiter = build_rate_limiter(redis_url, ctorOk)
    /\ windows = [k \in Keys |-> <<>>]
    /\ mem_admitted = [k \in MemKeys \X MemTimes |-> 0]
    /\ mem_last = MemNone
    /\ zset = {}
    /\ z_expire = NoExpire
    /\ rd = [w \in Workers |-> RdIdleCall]
    /\ rd_admitted = [u \in MemTimes |-> 0]
    /\ rd_accepted = {}
    /\ rd_started = 0
    /\ rd_store_failed = FALSE
    /\ \E c \in BackendCalls :
          /\ mem_limit = c.limit /\ rd_limit = c.limit
          /\ mem_window = c.window_secs /\ rd_window = c.window_secs

BackendNext ==
    \/ limiter.backend = "memory" /\ MemNext
    \/ limiter.backend = "redis" /\ RdNext

SpecBackend == BackendInit /\ [][BackendNext]_vars

\* =================================================================== claims

C10_Original ==
    (cg_last.op = "get" /\ cg_last.after_record) =>
        /\ cg_last.ret = cg_last.before + cg_last.x
        /\ ~cg_last.queried

\* C10 amended: when the cache is fresh at the read (same date, fetched
\* less than 60 s before), record_cost(x) followed immediately by
\* get_today_total_cost() returns the value before plus x and queries no
\* durable store; when the cache is stale the read queries the store.
C10_FreshReadReflectsIncrement ==
    (cg_last.op = "get" /\ cg_last.after_record) =>
        /\ cg_last.fresh =>
              (cg_last.ret = cg_last.before + cg_last.x /\ ~cg_last.queried)
        /\ ~cg_last.fresh => cg_last.queried

\* a positive cost recorded on a fresh cache holding a refreshed total, then read
C10_Witness ==
    /\ cg_last.op = "get"
    /\ cg_last.after_record
    /\ cg_last.fresh
    /\ cg_last.x > 0
    /\ cg_last.before > 0
    /\ cg_last.ret = cg_last.before + cg_last.x

\* ---- cost-guard claims, continued (SpecCost)
CgRead == cg_last.op \in {"get", "enforce"}

\* C11: within one calendar date, a get_today_total_cost call made less than
\* 60 s after the last successful refresh returns the cached value and does
\* not query the durable store; a successful refresh therefore comes at
\* least 60 s after the previous one for the same date.
C11_NoQueryWithinTtlOfRefresh ==
    CgRead =>
        /\ cg_last.since \in 0 .. CACHE_TTL_SECS - 1 =>
              (~cg_last.queried /\ cg_last.ret = cg_last.held.value)
        /\ cg_last.refreshed =>
              (cg_last.since = -1 \/ cg_last.since >= CACHE_TTL_SECS)

\* C11 witness: a read 59 s after a refresh that found spend is served from
\* the cache.
C11_Witness ==
    /\ CgRead
    /\ cg_last.since = CACHE_TTL_SECS - 1
    /\ ~cg_last.queried
    /\ cg_last.ret > 0

\* C12: when the durable query of get_today_total_cost fails, the call
\* returns the value the cache held (local increments included) and leaves
\* value, fetched_at and date as they were, so the cache is still stale for
\* the next call.
C12_FailedQueryReturnsCachedValue ==
    (CgRead /\ cg_last.queried /\ ~cg_last.refreshed) =>
        /\ cg_last.ret = cg_last.held.value
        /\ cost_cache = cg_last.held
        /\ ~CacheFresh(cost_cache, now, today)

\* C12 witness: a failed query on a stale cache that had been refreshed and
\* then raised by record_cost.
C12_Witness ==
    /\ cg_last.op = "get" /\ cg_last.queried /\ ~cg_last.refreshed
    /\ cg_last.after_record /\ cg_last.x > 0
    /\ cg_last.held.date = today
    /\ cg_last.ret = cg_last.before + cg_last.x

\* C13: once enforce_kill_switch has rejected a call, every later
\* enforce_kill_switch call rejects as long as the date has not changed and
\* no successful refresh has returned a total below the threshold.
C13_KillSwitchStaysShut ==
    (cg_last.op = "enforce" /\ cg_last.shut) => cg_last.outcome = "ServiceSuspended"

\* C13 witness: a call rejected after an earlier rejection, on a failed
\* refresh of a cache that is no longer fresh.
C13_Witness ==
    /\ cg_last.op = "enforce" /\ cg_last.shut
    /\ cg_last.queried /\ ~cg_last.refreshed
    /\ cg_last.outcome = "ServiceSuspended"

\* C14: the first get_today_total_cost call after the calendar date changed
\* returns the new date's durable total when the store answers, and does not
\* return the previous date's cached spend when the store does not answer.
C14_NoCarryOverAtRollover ==
    (CgRead /\ cg_last.held.date \notin {NoDate, today}) =>
        /\ cg_last.refreshed => cg_last.ret = DailyTotal(usage_daily, today)
        /\ ~cg_last.refreshed => ~(cg_last.held.value > 0 /\ cg_last.ret = cg_last.held.value)

\* C15: the cached daily total is lowered only by a read that refreshed it
\* from the durable store; record_cost, reads served from the cache and
\* failed refreshes never lower it.
C15_CachedTotalLoweredOnlyByRefresh ==
    [][cost_cache'.value < cost_cache.value =>
          (cg_last'.op \in {"get", "enforce"} /\ cg_last'.refreshed)]_vars

\* C15 witness: record_cost raised a total that a refresh had found.
C15_Witness ==
    /\ cg_last.op = "record" /\ cg_last.x > 0
    /\ cg_last.before > 0
    /\ cost_cache.value = cg_last.before + cg_last.x

\* attempts on key admitted with a timestamp in the trailing interval (t - w, t]
MemAdmittedIn(key, t, w) ==
    SumOver({u \in MemTimes : t - w < u /\ u <= t},
            [u \in MemTimes |-> mem_admitted[<<key, u>>]])

\* C3: with the in-memory backend, for every key, limit >= 1 and window, the
\* attempts admitted for a key with timestamps in any trailing interval
\* (t - window_secs, t] never exceed limit, and the window a check decides on
\* is whole: it holds exactly the admitted attempts of the trailing interval.
C3_MemAtMostLimitPerWindow ==
    \A key \in MemKeys :
        /\ \A t \in MemTimes : MemAdmittedIn(key, t, mem_window) <= mem_limit
        /\ Len(Prune(windows[key], now - mem_window))
              = MemAdmittedIn(key, now, mem_window)

\* a key's window is full (two admitted in it) and a further check was rejected
C3_Witness ==
    /\ mem_limit = 2
    /\ mem_last.op = "check"
    /\ mem_last.result = "RateLimited"
    /\ MemAdmittedIn(mem_last.key, now, mem_window) = 2
    /\ now > StartTime

\* attempts admitted by the Redis backend with a timestamp in (t - w, t]
RdAdmittedIn(t, w) ==
    SumOver({u \in MemTimes : t - w < u /\ u <= t}, rd_admitted)

\* C4 as stated: with the Redis backend and a store that is always
\* reachable, under any interleaving of checks from several processes on one
\* key, checks reading the same clock value included, the attempts admitted
\* within any trailing window_secs interval never exceed limit.
C4_RedisAtMostLimitPerWindow ==
    ~rd_store_failed =>
        \A t \in MemTimes : RdAdmittedIn(t, rd_window) <= rd_limit

\* C5 as stated: in every reachable state, states between store round trips
\* included, the stored set of the key holds only timestamps of admitted
\* attempts; a rejected attempt leaves nothing a concurrent check can count.
C5_RedisSetHoldsOnlyAdmitted ==
    Visible(zset, z_expire, now) \subseteq rd_accepted

\* C6: when the store is unreachable during a RedisRateLimiter.check call
\* (a round trip of the call fails), the call returns admitted and has
\* emitted exactly one warning log; no call ever logs more than once.
C6_RedisFailsOpenLoggingOnce ==
    \A w \in Workers :
        /\ rd[w].failed =>
              /\ rd[w].pc = "done"
              /\ rd[w].outcome = "ok"
              /\ rd[w].warnings = 1
        /\ ~rd[w].failed => rd[w].warnings = 0

\* one call failed at pipe.execute(), another at the compensating ZREM
C6_Witness ==
    \E v, w \in Workers :
        /\ rd[v].failed /\ rd[v].pc = "done" /\ rd[v].count < rd_limit
        /\ rd[w].failed /\ rd[w].pc = "done" /\ rd[w].count >= rd_limit

\* ---- rate limiter claims, continued
Occurrences(ts, u) == Cardinality({i \in 1 .. Len(ts) : ts[i] = u})
\* attempts on the key of the last check admitted within its window before it
MemAdmittedBefore ==
    MemAdmittedIn(mem_last.key, mem_last.at, mem_window)
        - (IF mem_last.result = "ok" THEN 1 ELSE 0)

\* C16 (SpecMem): InMemoryRateLimiter.check admits iff fewer than limit
\* earlier admitted attempts on the key have a timestamp t with
\* now - window_secs < t <= now; after the call the key's window holds exactly
\* the admitted attempts of that interval, the new one included when
\* admitted, and nothing for a rejected one.
C16_MemAdmitsIffBelowLimitInWindow ==
    mem_last.op = "check" =>
        /\ (mem_last.result = "ok") <=> (MemAdmittedBefore < mem_limit)
        /\ \A u \in MemTimes :
              Occurrences(windows[mem_last.key], u)
                 = IF now - mem_window < u /\ u <= now
                   THEN mem_admitted[<<mem_last.key, u>>] ELSE 0

\* C16 witness: an attempt is admitted while limit attempts admitted exactly
\* window_secs earlier are still on record, after a rejected attempt.
C16_Witness ==
    /\ mem_last.op = "check" /\ mem_last.result = "ok"
    /\ mem_window > 1
    /\ now - mem_window \in MemTimes
    /\ mem_admitted[<<mem_last.key, now - mem_window>>] = mem_limit

\* C17 (SpecRedis): a rejected check reports retry_after_seconds = the whole
\* seconds until the oldest timestamp inside the key's window leaves the
\* window, plus one: window_secs - (now - oldest) + 1.
C17_RetryAfterFromOldestTimestamp ==
    \A w \in Workers :
        rd[w].outcome = "RateLimited" =>
            rd[w].retry_after = (rd_window - (rd[w].t - rd[w].oldest)) + 1

\* C18 (SpecMem): an attempt on a key that already has limit admitted
\* attempts inside the window fails with RateLimited and a
\* retry_after_seconds of at most window_secs, at any spacing of the
\* attempts, the same clock reading included.
C18_RejectedWithRetryAfterWithinWindow ==
    (mem_last.op = "check" /\ MemAdmittedBefore >= mem_limit) =>
        /\ mem_last.result = "RateLimited"
        /\ mem_last.retry_after <= mem_window

\* ---- chat pipeline claims (SpecPipe)
GateOrder == <<"kill", "rate", "quota", "cache", "upstream">>
IsGate(e) == \E i \in 1 .. Len(GateOrder) : GateOrder[i] = e.ev
\* a gate let the handler go on: the call returned without raising, and the
\* cache lookup gave the handler no answer to return
GatePassed(e) == IF e.ev = "cache" THEN e.res # "hit" ELSE e.res = "ok"
GateRuns(r) == SelectSeq(req[r].events, IsGate)
EventsNamed(r, name) == {i \in 1 .. Len(req[r].events) : req[r].events[i].ev = name}
UpstreamOk(r) ==
    \E i \in EventsNamed(r, "upstream") : req[r].events[i].res = "ok"

\* C1: in an authenticated chat request the gates run in the order kill
\* switch, rate limit, usage limits, cache lookup, upstream call; each gate
\* starts only after every earlier one has passed, so no upstream call is made
\* by a request that failed or skipped an earlier gate.
C1_GatesRunInFixedOrder ==
    \A r \in Requests :
       req[r].kind = "auth" =>
          LET g == GateRuns(r)
          IN /\ Len(g) <= Len(GateOrder)
             /\ \A i \in 1 .. Len(g) :
                   /\ g[i].ev = GateOrder[i]
                   /\ i < Len(g) => GatePassed(g[i])

\* C1 witness: an authenticated request has gone through all five gates and
\* was answered by the upstream call, and another one went through four and
\* was answered from the cache.
C1_Witness ==
    \E r \in Requests, o \in Requests :
       /\ req[r].kind = "auth" /\ req[r].outcome = "Admitted"
       /\ Len(GateRuns(r)) = Len(GateOrder) /\ UpstreamOk(r)
       /\ req[o].kind = "auth" /\ req[o].outcome = "Admitted"
       /\ Len(GateRuns(o)) = Len(GateOrder) - 1
       /\ GateRuns(o)[Len(GateOrder) - 1].res = "hit"

\* C7: a request rejected by the kill switch, authenticated or demo, has made
\* no call but enforce_kill_switch (RateLimiter.check is not invoked) and has
\* written neither the rate limiter's windows, nor the usage aggregate, nor
\* the answer cache, nor the demo sessions.
C7_KillSwitchRejectsBeforeAnyEffect ==
    \A r \in Requests :
       req[r].outcome = "ServiceSuspended" =>
          /\ Len(req[r].events) = 1
          /\ req[r].events[1].ev = "kill"
          /\ req[r].writes \cap {"windows", "usage", "faq_cache", "sessions"} = {}

\* C7 witness: an authenticated request and a demo request were both rejected
\* by the kill switch.
C7_Witness ==
    \E r \in Requests, o \in Requests :
       /\ req[r].kind = "auth" /\ req[r].outcome = "ServiceSuspended"
       /\ req[o].kind = "demo" /\ req[o].outcome = "ServiceSuspended"

\* C8: when the cache lookup of a request returns a stored answer, the request
\* makes no upstream call, no record_cost call and no durable usage increment,
\* and if it is answered, it is answered with the stored text at zero cost.
C8_CacheHitCostsNothing ==
    \A r \in Requests :
       (\E i \in EventsNamed(r, "cache") : req[r].events[i].res \in {"hit", "empty"}) =>
          /\ EventsNamed(r, "upstream") = {}
          /\ EventsNamed(r, "record_cost") = {}
          /\ EventsNamed(r, "record_usage") = {}
          /\ req[r].cost = 0
          /\ req[r].outcome = "Admitted" => req[r].reply = req[r].cached.text

\* C9: a request that missed the cache, got a completion from the upstream
\* and has ended has cost = in_tokens * COST_PER_INPUT_TOKEN + out_tokens *
\* COST_PER_OUTPUT_TOKEN, made exactly one record_cost call and exactly one
\* record_usage call, both with that amount and the latter for the requesting
\* tenant, and stored the answer in the cache only after them.
C9_CostRecordedOnceBeforeCacheStore ==
    \A r \in Requests :
       (req[r].pc = "done" /\ UpstreamOk(r)) =>
          /\ req[r].cost = req[r].in_tokens * COST_PER_INPUT_TOKEN
                              + req[r].out_tokens * COST_PER_OUTPUT_TOKEN
          /\ \E c \in EventsNamed(r, "record_cost"), u \in EventsNamed(r, "record_usage"),
                k \in EventsNamed(r, "cache_store") :
                /\ EventsNamed(r, "record_cost") = {c}
                /\ EventsNamed(r, "record_usage") = {u}
                /\ EventsNamed(r, "cache_store") = {k}
                /\ req[r].events[c].amt = req[r].cost
                /\ req[r].events[u].amt = req[r].cost
                /\ req[r].events[u].who = req[r].owner
                /\ c < k /\ u < k

\* ---- FAQ cache claims (SpecFaq)
Upper(c) == IF c = "a" THEN "A" ELSE IF c = "b" THEN "B" ELSE c
\* the positions at which the words of a text start, and the word starting at i
WordStarts(t) == {i \in 1 .. Len(t) : t[i] # " " /\ (i = 1 \/ t[i - 1] = " ")}
WordAt(t, i) ==
    LET last == CHOOSE j \in i .. Len(t) :
                    /\ \A k \in i .. j : t[k] # " "
                    /\ (j = Len(t) \/ t[j + 1] = " ")
    IN [k \in 1 .. (last - i + 1) |-> Upper(t[i + k - 1])]
\* the words of a text in order, in capitals
UpperWords(t) ==
    [n \in 1 .. Cardinality(WordStarts(t)) |->
        WordAt(t, CHOOSE i \in WordStarts(t) :
                     Cardinality({j \in WordStarts(t) : j < i}) = n - 1)]
\* two texts differ at most in letter case and in blanks around and between words
SameQuestion(q, p) == UpperWords(q) = UpperWords(p)
TtlSecs == FAQ_CACHE_TTL_HOURS * 3600

\* C19: after store_cached_answer(tenant, q, a) succeeded, a
\* get_cached_answer(tenant, q2) whose round trips succeed, made before the
\* entry expires, returns a for every q2 that differs from q only in letter
\* case and in leading, trailing or repeated blanks; hashing a normalised
\* text gives the hash of the original.
C19_LookupFindsAnswerUpToCaseAndBlanks ==
    /\ \A q \in FaqTexts : hash_question(hash_question(q)) = hash_question(q)
    /\ (/\ faq_last.op = "lookup" /\ faq_last.ok
        /\ faq_last.stored.valid
        /\ faq_last.stored.owner = faq_last.owner
        /\ SameQuestion(faq_last.stored.q, faq_last.q)
        /\ now < faq_last.stored.at + TtlSecs)
          => faq_last.ret = Some(faq_last.stored.answer)

\* C19 witness: an answer stored under one spelling is returned to a lookup
\* with another spelling in the last second before it expires.
C19_Witness ==
    /\ faq_last.op = "lookup" /\ faq_last.ok
    /\ faq_last.stored.valid
    /\ faq_last.stored.q # faq_last.q
    /\ SameQuestion(faq_last.stored.q, faq_last.q)
    /\ now = faq_last.stored.at + TtlSecs - 1
    /\ faq_last.ret = Some(faq_last.stored.answer)

\* C20: a lookup of an entry whose expires_at is not after now returns None
\* and leaves the row as it was (no hit-count bump, no deletion); a
\* store_cached_answer that succeeds replaces the row, expired or not, by one
\* with the new answer that expires at now + FAQ_CACHE_TTL_HOURS and is
\* visible to lookups again.
C20_ExpiredEntriesReadAsAbsent ==
    LET key == <<faq_last.owner, hash_question(faq_last.q)>>
    IN /\ (faq_last.op = "lookup" /\ faq_last.prior.present
                /\ faq_last.prior.expires_at <= now) =>
             (faq_last.ret = None /\ faq_cache[key] = faq_last.prior)
       /\ (faq_last.op = "store" /\ faq_last.ok) =>
             /\ faq_cache[key].present
             /\ faq_cache[key].answer_text = faq_last.stored.answer
             /\ faq_cache[key].expires_at = now + TtlSecs
             /\ FaqSelect(faq_cache, faq_last.owner, key[2], now) = faq_cache[key]

\* C20 witness: a store has replaced a row that expired this very second by
\* another answer.
C20_Witness ==
    /\ faq_last.op = "store" /\ faq_last.ok
    /\ faq_last.prior.present
    /\ faq_last.prior.expires_at = now
    /\ faq_last.prior.answer_text # faq_last.stored.answer

\* C21: a lookup whose select succeeded and found an unexpired row returns
\* that row's answer, whether or not the hit-count update succeeded.
C21_FailedBumpStillReturnsAnswer ==
    (/\ faq_last.op = "lookup" /\ faq_last.run # "select_fails"
     /\ faq_last.prior.present /\ faq_last.prior.expires_at > now)
       => faq_last.ret = Some(faq_last.prior.answer_text)

\* ---- failures inside the chat handlers (SpecPipe)
LastEvent(r) == req[r].events[Len(req[r].events)]

\* C22: a get_cached_answer whose store round trip raised returns None and
\* the handler goes on to the upstream call as on a miss; a
\* store_cached_answer that raised comes after the record_cost call with the
\* request's cost, never ends the request, and leaves an authenticated
\* request Admitted with the upstream answer.
C22_CacheFailuresAreNotFatal ==
    \A r \in Requests :
       /\ \A i \in EventsNamed(r, "cache") :
             req[r].events[i].res = "failed" =>
                /\ req[r].cached = None
                /\ "faq_cache" \notin req[r].writes \/ EventsNamed(r, "cache_store") # {}
                /\ IF i = Len(req[r].events)
                   THEN req[r].pc = "upstream" /\ req[r].outcome = "none"
                   ELSE req[r].events[i + 1].ev = "upstream"
       /\ \A i \in EventsNamed(r, "cache_store") :
             req[r].events[i].res = "Error" =>
                /\ UpstreamOk(r)
                /\ \E c \in EventsNamed(r, "record_cost") :
                      c < i /\ req[r].events[c].amt = req[r].cost
                /\ req[r].outcome = "Error" => i # Len(req[r].events)
                /\ req[r].kind = "auth" =>
                      /\ req[r].pc = "done" /\ req[r].outcome = "Admitted"
                      /\ \E u \in EventsNamed(r, "record_usage") : u < i

\* C22 witness: one authenticated request went to the upstream after a
\* lookup that raised, and its answer could not be stored; it was Admitted.
C22_Witness ==
    \E r \in Requests :
       /\ req[r].kind = "auth" /\ req[r].outcome = "Admitted"
       /\ \E i \in EventsNamed(r, "cache") : req[r].events[i].res = "failed"
       /\ LastEvent(r).ev = "cache_store" /\ LastEvent(r).res = "Error"
       /\ req[r].reply = "hello" /\ req[r].cost > 0

\* ---- usage limits (SpecQuota)
\* two days of one calendar month: no month begins after one and by the other
SameMonth(d, e) ==
    ~\E f \in MonthFirstDays : (d < f /\ f <= e) \/ (e < f /\ f <= d)
\* the days of today's month up to today
MonthSoFar == {e \in Dates : e <= today /\ SameMonth(e, today)}
ConvsThisMonth(o) ==
    SumOver(MonthSoFar, [e \in Dates |-> usage_daily[<<o, e>>].conversations])
TokensThisMonth(o) ==
    SumOver(MonthSoFar, [e \in Dates |-> usage_daily[<<o, e>>].total_tokens])

\* C23: a check_usage_limits call whose usage read succeeded ends with
\* limit_type "conversations" whenever the month's conversations are >= the
\* conversation limit, with "tokens" exactly when the conversations are below
\* their limit and the month's tokens are >= the token limit, and with ok
\* exactly when both totals are strictly below their limits.
C23_ConversationsCheckedBeforeTokens ==
    (quota_last.op = "check" /\ quota_last.ok) =>
       LET o == quota_last.owner
           convs == ConvsThisMonth(o)
           toks == TokensThisMonth(o)
       IN /\ convs >= stores[o].conv_limit => quota_last.ret = "conversations"
          /\ quota_last.ret = "tokens" <=>
                (convs < stores[o].conv_limit /\ toks >= stores[o].tok_limit)
          /\ quota_last.ret = "ok" <=>
                (convs < stores[o].conv_limit /\ toks < stores[o].tok_limit)

\* C23 witness: a tenant at or over both limits was told "conversations".
C23_Witness ==
    /\ quota_last.op = "check" /\ quota_last.ok
    /\ ConvsThisMonth(quota_last.owner) >= stores[quota_last.owner].conv_limit
    /\ TokensThisMonth(quota_last.owner) >= stores[quota_last.owner].tok_limit
    /\ quota_last.ret = "conversations"

\* C24: a request whose usage read in check_usage_limits raised passes the
\* check whatever the tenant has used, and does not end before its cache
\* lookup.
C24_FailedUsageReadLetsRequestContinue ==
    \A r \in Requests :
       \A i \in EventsNamed(r, "quota") :
          req[r].events[i].amt = 1 =>
             /\ req[r].events[i].res = "ok"
             /\ req[r].pc = "done" => EventsNamed(r, "cache") # {}

\* the usage table with every row but those of tenant o in today's month,
\* up to today, emptied
OwnMonthOnly(o) ==
    [k \in Owners \X Dates |->
        IF k[1] = o /\ k[2] \in MonthSoFar THEN usage_daily[k] ELSE UsageRow(0, 0, 0)]
ConvsBeforeThisMonth(o) ==
    SumOver({e \in Dates : e < today /\ ~SameMonth(e, today)},
            [e \in Dates |-> usage_daily[<<o, e>>].conversations])

\* C25: a check_usage_limits call whose usage read succeeded answers as it
\* would if the table held only the requesting tenant's rows dated from the
\* first day of the current month to today; it answers ok only when those
\* rows' totals are below the limits, and it answers ok on the first day of a
\* month for a tenant that has not used the service that day.
C25_OnlyOwnRowsOfThisMonthCount ==
    (quota_last.op = "check" /\ quota_last.ok) =>
       LET o == quota_last.owner
       IN /\ quota_last.ret =
                check_usage_limits(OwnMonthOnly(o), o, stores[o], today, TRUE)
          /\ quota_last.ret = "ok" =>
                /\ ConvsThisMonth(o) < stores[o].conv_limit
                /\ TokensThisMonth(o) < stores[o].tok_limit
          /\ (today \in MonthFirstDays
                 /\ usage_daily[<<o, today>>] = UsageRow(0, 0, 0)) =>
                quota_last.ret = "ok"

\* C25 witness: on the first day of a month a tenant that had reached its
\* conversation limit in the month before passes the check, while another
\* tenant is at its limit that day.
C25_Witness ==
    /\ quota_last.op = "check" /\ quota_last.ok
    /\ today \in MonthFirstDays
    /\ quota_last.ret = "ok"
    /\ ConvsBeforeThisMonth(quota_last.owner) >= stores[quota_last.owner].conv_limit
    /\ \E p \in Tenants \ {quota_last.owner} :
          ConvsThisMonth(p) >= stores[p].conv_limit

\* ---- demo requests (SpecPipe)
\* C26: a demo request rejected by the per-IP daily cap or by the per-session
\* message cap has not called rate_limiter.check and has not written the
\* limiter's window of its address.
C26_DemoCapsBeforeRateLimit ==
    \A r \in Requests :
       (req[r].kind = "demo"
          /\ \E i \in EventsNamed(r, "session") :
                req[r].events[i].res \in {"daily_limit", "session_limit"}) =>
          /\ EventsNamed(r, "rate") = {}
          /\ "windows" \notin req[r].writes

\* C27: an authenticated request of a tenant that has a store ends as
\* Admitted, RateLimited, ServiceSuspended, QuotaExceeded or
\* UpstreamUnavailable, whichever durable-store round trips fail on the way.
C27_AuthOutcomesAreTheFiveNamed ==
    \A r \in Requests :
       (req[r].kind = "auth" /\ req[r].pc = "done" /\ stores[req[r].owner].present) =>
          req[r].outcome \in {"Admitted", "RateLimited", "ServiceSuspended",
                              "QuotaExceeded", "UpstreamUnavailable"}

\* C28: a request whose upstream call failed ended right there as
\* UpstreamUnavailable after one upstream attempt, made no record_cost,
\* record_usage or store_cached_answer call, and wrote neither the usage
\* aggregate nor the answer cache.
C28_UpstreamFailureChangesNothing ==
    \A r \in Requests :
       req[r].outcome = "UpstreamUnavailable" =>
          /\ req[r].pc = "done"
          /\ LastEvent(r).ev = "upstream" /\ LastEvent(r).res = "Error"
          /\ Cardinality(EventsNamed(r, "upstream")) = 1
          /\ EventsNamed(r, "record_cost") = {}
          /\ EventsNamed(r, "record_usage") = {}
          /\ EventsNamed(r, "cache_store") = {}
          /\ req[r].writes \cap {"usage", "faq_cache"} = {}

\* the record_usage calls of request r that failed
UsageFailures(r) ==
    {i \in EventsNamed(r, "record_usage") : req[r].events[i].res = "Error"}

\* C29: a record_usage call that failed after a successful upstream call
\* wrote nothing and did not end the request: it came after the record_cost
\* call with the request's cost, the step left the in-process total as it
\* was, an authenticated request went on to store_cached_answer, and the
\* request ended Admitted.
C29_FailedUsageWriteIsSwallowed ==
    /\ [](\A r \in Requests : \A i \in UsageFailures(r) :
            /\ UpstreamOk(r)
            /\ "usage" \notin req[r].writes
            /\ \E c \in EventsNamed(r, "record_cost") :
                  c < i /\ req[r].events[c].amt = req[r].cost
            /\ req[r].kind = "auth" =>
                  IF i = Len(req[r].events)
                  THEN req[r].pc = "cache_store" /\ req[r].outcome = "none"
                  ELSE req[r].events[i + 1].ev = "cache_store"
            /\ req[r].pc = "done" => req[r].outcome = "Admitted")
    /\ [][\A r \in Requests :
             (UsageFailures(r) = {} /\ UsageFailures(r)' # {}) =>
                UNCHANGED <<cost_cache, usage_daily, faq_cache>>]_vars

\* C29 witness: an authenticated request whose usage write failed was
\* Admitted with a paid answer, which is in the cache.
C29_Witness ==
    \E r \in Requests :
       /\ req[r].kind = "auth" /\ req[r].outcome = "Admitted"
       /\ UsageFailures(r) # {}
       /\ req[r].cost > 0 /\ cost_cache.value >= req[r].cost
       /\ LastEvent(r).ev = "cache_store" /\ LastEvent(r).res = "ok"
       /\ faq_cache[<<req[r].owner, hash_question(req[r].q)>>].answer_text = req[r].reply

\* C30: a demo request that got a completion from the upstream and has
\* ended has made a record_usage call for the system tenant with the
\* request's cost, whatever else failed to be written.
C30_DemoSpendAlwaysReachesUsage ==
    \A r \in Requests :
       (req[r].kind = "demo" /\ req[r].pc = "done" /\ UpstreamOk(r)) =>
          \E u \in EventsNamed(r, "record_usage") :
             /\ req[r].events[u].who = DEMO_OWNER_ID
             /\ req[r].events[u].amt = req[r].cost

\* ---- additive writes (SpecPipe)
\* the events named name that request r appends in a step
NewEvents(r, name) ==
    {i \in (Len(req[r].events) + 1) .. Len(req'[r].events) :
        req'[r].events[i].ev = name}
\* the requests whose record_usage call for owner o succeeds in a step
Recording(o) ==
    {r \in Requests : \E i \in NewEvents(r, "record_usage") :
        req'[r].events[i].res = "ok" /\ req'[r].events[i].who = o}

\* C31: in every step of every interleaving, each usage_daily row changes
\* only by the amounts of a record_usage call that succeeds in that step for
\* that row's tenant on the current date (cost, one conversation, the tokens
\* added to what the row held), and stays as it was otherwise; a
\* record_cost call raises the cached total by exactly its cost and leaves
\* the rest of the cache, and only kill-switch reads and record_cost calls
\* change the cache at all.
C31_WritesAreAdditiveAndAttributed ==
    [][/\ \A o \in Owners, d \in Dates :
             usage_daily'[<<o, d>>] =
                IF d = today /\ Recording(o) # {}
                THEN LET r == CHOOSE q \in Recording(o) : TRUE
                     IN UsageRow(usage_daily[<<o, d>>].estimated_cost_usd + req[r].cost,
                                 usage_daily[<<o, d>>].conversations + 1,
                                 usage_daily[<<o, d>>].total_tokens
                                    + req[r].in_tokens + req[r].out_tokens)
                ELSE usage_daily[<<o, d>>]
       /\ \A r \in Requests : \A i \in NewEvents(r, "record_cost") :
             /\ req'[r].events[i].amt = req'[r].cost
             /\ cost_cache' = [cost_cache EXCEPT !.value = @ + req'[r].cost]
       /\ (\A r \in Requests :
              NewEvents(r, "record_cost") = {} /\ NewEvents(r, "kill") = {})
             => cost_cache' = cost_cache]_vars

\* C31 witness: two requests of one tenant that were in flight together (both
\* missed the cache and both stored their answer) have each recorded a paid
\* call, and the tenant's row and the cached total hold both costs.
C31_Witness ==
    /\ \A r \in Requests :
          /\ req[r].kind = "auth" /\ req[r].owner = "t1" /\ req[r].outcome = "Admitted"
          /\ req[r].cost > 0
          /\ \E i \in EventsNamed(r, "cache") : req[r].events[i].res = "miss"
          /\ \E i \in EventsNamed(r, "record_usage") : req[r].events[i].res = "ok"
          /\ LastEvent(r).ev = "cache_store" /\ LastEvent(r).res = "ok"
    /\ usage_daily[<<"t1", today>>].estimated_cost_usd = req[1].cost + req[2].cost
    /\ usage_daily[<<"t1", today>>].conversations = 2
    /\ cost_cache.value = req[1].cost + req[2].cost

\* C32: no demo session ever holds more than DEMO_RATE_LIMIT_PER_SESSION
\* messages, and the sessions of the client address never hold more than
\* DEMO_RATE_LIMIT_PER_IP messages together.
C32_DemoCapsNeverExceeded ==
    /\ \A k \in Tokens :
          demo_sessions[k].message_count <= DEMO_RATE_LIMIT_PER_SESSION
    /\ IpTotal(demo_sessions, ClientIp) <= DEMO_RATE_LIMIT_PER_IP

\* ---- backend selection (SpecBackend)
\* C33 as stated: every process started with REDIS_URL set uses the
\* distributed backend, every other process the in-memory one.
C33_Original ==
    limiter.configured <=> limiter.backend = "redis"

\* C33: the limiter built at start is never replaced; it is the distributed
\* one exactly when REDIS_URL was set and the construction did not raise;
\* a process with the distributed limiter never touches local windows, also
\* when its checks fail open, and a process with the in-memory limiter never
\* touches the store.
C33_BackendChosenOnce ==
    /\ [](/\ limiter.backend = "redis" <=>
                (limiter.configured /\ ~limiter.fell_back)
          /\ limiter.backend = "redis" =>
                (mem_last = MemNone /\ \A k \in Keys : windows[k] = <<>>)
          /\ limiter.backend = "memory" =>
                (zset = {} /\ rd_started = 0 /\ ~rd_store_failed))
    /\ [][limiter' = limiter]_vars

\* C33 witness: a process holding the distributed limiter has let a check
\* through because the store was unreachable, and has no local window.
C33_Witness ==
    /\ limiter.backend = "redis"
    /\ \E w \in Workers :
          rd[w].pc = "done" /\ rd[w].failed /\ rd[w].outcome = "ok"
    /\ \A k \in Keys : windows[k] = <<>>

\* ---- rate limiter claims, distributed backend (SpecRedis)
\* C34: a RedisRateLimiter.check call that has ended and had counted limit
\* or more entries was rejected with RateLimited, and its own timestamp is
\* in the stored set only if an admitted attempt has the same timestamp.
C34_FullWindowAlwaysRejects ==
    \A w \in Workers :
       (rd[w].pc = "done" /\ rd[w].count >= rd_limit) =>
          /\ rd[w].outcome = "RateLimited"
          /\ rd[w].t \in Visible(zset, z_expire, now) => rd[w].t \in rd_accepted

\* ---- retry hint (SpecBackend)
\* the clock values from u on at which a later check is tried
From(u) == u .. (u + MaxMemTime)

\* a later check on the key of the last rejected check is admitted at every
\* time from the hinted one on, on the backend in use
HintSuffices ==
    /\ (limiter.backend = "memory" /\ mem_last.op = "check"
           /\ mem_last.result = "RateLimited") =>
          \A u \in From(mem_last.at + mem_last.retry_after) :
             MemCheck(windows, mem_last.key, mem_limit, mem_window, u).result = "ok"
    /\ \A w \in Workers :
          (limiter.backend = "redis" /\ rd[w].pc = "done"
              /\ rd[w].outcome = "RateLimited" /\ rd[w].t = now) =>
             \A u \in From(rd[w].t + rd[w].retry_after) :
                ~RedisAtLimit(RedisPipeline(zset, z_expire, u, u, rd_window).count,
                              rd_limit)

UpstreamCallsOf(o) ==
    {r \in Requests :
        /\ req[r].kind = "auth" /\ req[r].owner = o
        /\ (req[r].pc = "upstream" \/ EventsNamed(r, "upstream") # {})}
\* those whose conversation has been added to the tenant's usage
RecordedCallsOf(o) ==
    {r \in UpstreamCallsOf(o) :
        \E i \in EventsNamed(r, "record_usage") : req[r].events[i].res = "ok"}
\* every durable-store call made for tenant o's requests so far succeeded
StoreReachableFor(o) ==
    \A r \in Requests :
       (req[r].kind = "auth" /\ req[r].owner = o) =>
          \A i \in 1 .. Len(req[r].events) :
             /\ req[r].events[i].ev # "upstream" =>
                   req[r].events[i].res \notin {"Error", "failed"}
             /\ req[r].events[i].ev = "quota" => req[r].events[i].amt = 0

\* C36: with the durable store reachable and every usage increment
\* succeeding, the upstream calls made for t1 in the month (the conversations
\* already in its usage rows plus the calls not yet recorded) never exceed
\* its monthly conversation limit.
C36_UpstreamCallsWithinMonthlyLimit ==
    StoreReachableFor("t1") =>
       ConvsThisMonth("t1") - Cardinality(RecordedCallsOf("t1"))
          + Cardinality(UpstreamCallsOf("t1")) <= stores["t1"].conv_limit

\* ---- kill switch under concurrency (SpecPipe)
\* the largest cost one upstream call can have
MaxCallCost ==
    CHOOSE c \in {estimate_cost(k.in_tokens, k.out_tokens) : k \in Completions} :
       \A k \in Completions : estimate_cost(k.in_tokens, k.out_tokens) <= c

\* C37: the in-process total of the day never exceeds MAX_DAILY_COST_USD by
\* more than the cost of one upstream call, whatever the interleaving of the
\* requests.
C37_OvershootIsAtMostOneCall ==
    cost_cache.date = today =>
       cost_cache.value <= MAX_DAILY_COST_USD + MaxCallCost

\* ---- tenant isolation of the answer cache (SpecFaq)
\* the rows of the tenants other than o
RowsOfOthers(cache, o) ==
    [k \in (Owners \ {o}) \X FaqHashes |-> cache[k]]

\* C38: a lookup under a tenant returns nothing but the answer held in that
\* tenant's own row for the question, and no store or lookup under a tenant
\* changes a row of another tenant (so what a lookup under another tenant
\* returns), the question text being the same or not.
C38_CacheIsolatedPerTenant ==
    [][faq_last'.ops # faq_last.ops =>
          /\ RowsOfOthers(faq_cache', faq_last'.owner)
                = RowsOfOthers(faq_cache, faq_last'.owner)
          /\ \A o \in Tenants \ {faq_last'.owner}, q \in FaqTexts :
                get_cached_answer(faq_cache', o, q, now, TRUE, TRUE).ret
                   = get_cached_answer(faq_cache, o, q, now, TRUE, TRUE).ret
          /\ (faq_last'.op = "lookup" /\ faq_last'.ret.some) =>
                faq_last'.ret.text
                   = faq_cache[<<faq_last'.owner,
                                 hash_question(faq_last'.q)>>].answer_text]_vars

\* C38 witness: a lookup under t2 returned t2's answer while t1 holds an
\* unexpired row with another answer for the same question.
C38_Witness ==
    /\ faq_last.op = "lookup" /\ faq_last.owner = "t2"
    /\ faq_last.ret.some
    /\ LET row == faq_cache[<<"t1", hash_question(faq_last.q)>>]
       IN /\ row.present /\ row.expires_at > now
          /\ row.answer_text # faq_last.ret.text

\* ---- how InMemoryRateLimiter.check ends (SpecBackend)
\* C39: whatever the limit (0 included) and the window, a check of the
\* in-memory limiter ends in admission or in RateLimited, never in another
\* error.
C39_CheckEndsAdmittedOrRateLimited ==
    (limiter.backend = "memory" /\ mem_last.op = "check") =>
       mem_last.result \in {"ok", "RateLimited"}

====
